---------------------------- MODULE Spec2Model ----------------------------
(***************************************************************************)
(* Model of src/app.py (loopvinyl/tco2eqv8): the emission-trajectory       *)
(* engine of the vermicomposting carbon-credit simulator.                  *)
(*                                                                         *)
(* Numbers.  A Python float is modelled as a fixed-point integer counting  *)
(* millionths (UM units per 1.0); a product or quotient is truncated to a  *)
(* whole unit, where IEEE arithmetic rounds to 53 bits.  An emission       *)
(* profile entry keeps its exact value as a pair <<numerator,              *)
(* denominator>>.  Arrays keep Python's indices 0..n-1.                    *)
(***************************************************************************)
EXTENDS Integers, Sequences, FiniteSets, TLC

VARIABLES
    residuos_kg_dia,   \* sidebar: waste mass per day (fixed point)
    umidade,           \* sidebar: moisture fraction (fixed point)
    massa_exposta_kg,  \* sidebar: exposed mass (fixed point)
    h_exposta,         \* sidebar: exposed hours per day (fixed point)
    perfis,            \* the six module-level profile tables
    pc,                \* position of the running script / call
    fn,                \* calculator whose batch loop is running
    params,            \* arguments of the call (<<umidade_val, temp_val, doc_val>>)
    dias_simulacao,    \* horizon length D of the call
    dia_entrada,       \* outer loop variable
    dia_compostagem,   \* inner loop variable (profile offset)
    emissoes_CH4,      \* CH4 series being built
    emissoes_N2O,      \* N2O series being built
    erro,              \* "" or the exception raised
    lote,              \* history: what the batch last worked on has added
    dias,              \* module level: dias = anos_simulacao * 365
    chamada_aterro,    \* last call of calcular_emissoes_aterro and its result
    retorno,           \* value returned by the last call
    anos_simulacao,    \* sidebar: horizon in years
    ano_inicio,        \* datetime.now().year when the script ran
    relatorio,         \* the deterministic report: daily and annual tables
    rng,               \* state of the shared generator np.random
    ultimo,            \* the sampling episode that ran last
    lembrado,          \* history: one earlier sampling episode
    n_simulations,     \* sidebar: number of Monte Carlo simulations
    robustez,          \* locals of analise_robustez_multi_seeds while it runs
    avaliacoes,        \* the batch of evaluations of a Sobol or Monte Carlo run
    session_state      \* st.session_state: the values kept between script runs

vars_relatorio == <<anos_simulacao, ano_inicio, relatorio>>

vars_mc == <<rng, ultimo, lembrado, n_simulations, robustez, avaliacoes>>

vars == <<residuos_kg_dia, umidade, massa_exposta_kg, h_exposta, perfis, pc, fn,
          params, dias_simulacao, dia_entrada, dia_compostagem, emissoes_CH4,
          emissoes_N2O, erro, lote, dias, chamada_aterro, retorno,
          vars_relatorio, vars_mc, session_state>>

\* no report has been produced
SemRelatorio ==
    /\ anos_simulacao = 0
    /\ ano_inicio = 0
    /\ relatorio = <<>>

\* no sampling episode has run
SemMC ==
    /\ rng = 0
    /\ ultimo = <<>>
    /\ lembrado = <<>>
    /\ n_simulations = 0
    /\ robustez = <<>>
    /\ avaliacoes = <<>>

\* st.session_state is still empty
SemSessao == session_state = <<>>

-----------------------------------------------------------------------------
(* Fixed-point arithmetic                                                  *)

UM == 1000 * 1000

Abs(x) == IF x < 0 THEN -x ELSE x

\* quotient and remainder of q*c + t1 + t2 by c, for t1, t2 inside 32 bits
JuntarQR(q, t1, t2, c) ==
    <<q + (t1 \div c) + (t2 \div c) + ((t1 % c) + (t2 % c)) \div c,
      ((t1 % c) + (t2 % c)) % c>>

\* <<quotient, remainder>> of a*b by c from h, those of a*(b \div K) by c,
\* and d = b % K
PassoQR(h, K, a, d, c) ==
    JuntarQR(K * h[1] + (a \div c) * d, K * h[2], (a % c) * d, c)

\* <<quotient, remainder>> of a*b by c for a, b >= 0 and 0 < c < 2^30, by
\* decomposition of b in the greatest radix K with K*c inside 32 bits, so
\* that no intermediate value leaves 32 bits.
RECURSIVE MulQR(_, _, _)
MulQR(a, b, c) ==
    IF b = 0 THEN <<0, 0>>
    ELSE PassoQR(MulQR(a, b \div (2147483647 \div c), c),
                 2147483647 \div c, a, b % (2147483647 \div c), c)

\* the quotient of (xq*UM + xr) * (yq*UM + yr) by UM, for xr, yr < UM
PartesUM(xq, xr, yq, yr) ==
    xq * yq * UM + xq * yr + xr * yq
    + ((xr \div 1000) * yr + ((xr % 1000) * yr) \div 1000) \div 1000

\* the quotient of x*y by UM for x, y >= 0, from the quotients and
\* remainders of x and y by UM, so that no intermediate value leaves 32 bits.
MulUM(x, y) == PartesUM(x \div UM, x % UM, y \div UM, y % UM)

\* the greatest common divisor of a and b
RECURSIVE MDC(_, _)
MDC(a, b) == IF b = 0 THEN a ELSE MDC(b, a % b)

\* x*y/z truncated, with the factor g that y and z share taken out first
MulDivReduzido(x, y, z, g) == MulQR(x, y \div g, z \div g)[1]

\* x*y/z truncated, for x, y >= 0 and z > 0
MulDivP(x, y, z) ==
    IF x = 0 \/ y <= 2147483647 \div x THEN (x * y) \div z
    ELSE IF z = UM THEN MulUM(x, y)
    ELSE MulDivReduzido(x, y, z, MDC(y, z))

\* a*b/c truncated toward zero.
MulDiv(a, b, c) ==
    IF (a < 0) # ((b < 0) # (c < 0))
    THEN -MulDivP(Abs(a), Abs(b), Abs(c))
    ELSE MulDivP(Abs(a), Abs(b), Abs(c))

\* x*y/UM truncated, for x, y >= 0
MulP(x, y) ==
    IF x = 0 \/ y <= 2147483647 \div x THEN (x * y) \div UM ELSE MulUM(x, y)

Mul(a, b) ==
    IF (a < 0) # (b < 0) THEN -MulP(Abs(a), Abs(b)) ELSE MulP(Abs(a), Abs(b))

Div(a, b) == MulDiv(a, UM, b)

\* The float written n/d in the source (0.436 is Dec(436, 1000)).
Dec(n, d) == (n * UM) \div d

\* a float times a Python int (exact operand)
MulInt(a, n) == a * n

\* a float divided by a positive Python int, truncated toward zero
DivInt(a, n) == IF a < 0 THEN -((-a) \div n) ELSE a \div n

\* mutant: a fiftieth of the batch on every day, whatever the profile says
MulFracUniforme(a, p) == DivInt(a, 50)

\* a float times an exact profile entry <<numerator, denominator>>
MulFrac(a, p) == MulDiv(a, p[1], p[2])

\* Op applied to the value of v (v is evaluated once, then named)
Seja(v, Op(_)) == CHOOSE r \in {Op(x) : x \in {v}} : TRUE

\* an array stored with its values: the function f, every entry evaluated
NdArray(f) == f @@ [x \in {} |-> 0]

\* a tuple as a Python array with indices 0..n-1
Arr(s) == NdArray([i \in 0..(Len(s) - 1) |-> s[i + 1]])

Tam(a) == Cardinality(DOMAIN a)

\* a[lo] + ... + a[hi] (the range is halved to keep the evaluation shallow)
RECURSIVE SomaEntre(_, _, _)
SomaEntre(a, lo, hi) ==
    IF lo > hi THEN 0
    ELSE IF lo = hi THEN a[lo]
    ELSE SomaEntre(a, lo, (lo + hi) \div 2)
         + SomaEntre(a, (lo + hi) \div 2 + 1, hi)

\* a[0] + ... + a[n - 1]
SomaAte(a, n) == SomaEntre(a, 0, n - 1)

\* a.sum() of an array of integers
Soma(a) == SomaEntre(a, 0, Tam(a) - 1)

-----------------------------------------------------------------------------
(* Fixed parameters, src/app.py lines 454-559                              *)

T == Dec(25, 1)

DOC == Dec(15, 100)

DOCf_val == Mul(Dec(147, 10000), T) + Dec(28, 100)

MCF == Dec(1, 1)

F == Dec(5, 10)

OX == Dec(1, 10)

Ri == Dec(0, 1)

k_ano == Dec(6, 100)

TOC_YANG == Dec(436, 1000)

TN_YANG == DivInt(Dec(142, 10), 1000)

CH4_C_FRAC_YANG == DivInt(Dec(13, 100), 100)

N2O_N_FRAC_YANG == DivInt(Dec(92, 100), 100)

CH4_pre_descarte_ugC_por_kg_h_media == Dec(278, 100)

fator_conversao_C_para_CH4 == Dec(16, 12)

CH4_pre_descarte_ugCH4_por_kg_h_media ==
    Mul(CH4_pre_descarte_ugC_por_kg_h_media, fator_conversao_C_para_CH4)

CH4_pre_descarte_g_por_kg_dia ==
    DivInt(MulInt(CH4_pre_descarte_ugCH4_por_kg_h_media, 24), 1000000)

N2O_pre_descarte_mgN_por_kg == Dec(2026, 100)

N2O_pre_descarte_mgN_por_kg_dia == DivInt(N2O_pre_descarte_mgN_por_kg, 3)

N2O_pre_descarte_g_por_kg_dia ==
    DivInt(Mul(N2O_pre_descarte_mgN_por_kg_dia, Dec(44, 28)), 1000)

GWP_CH4_20 == Dec(797, 10)

GWP_N2O_20 == Dec(273, 1)

CH4_C_FRAC_THERMO == Dec(6, 1000)

N2O_N_FRAC_THERMO == Dec(196, 10000)

\* The literals of the four np.array profiles, in thousandths.
LiteralCH4Vermi ==
    <<20, 20, 20, 30, 30,   40, 40, 50, 50, 60,   70, 80, 90, 100, 90,
      80, 70, 60, 50, 40,   30, 20, 20, 10, 10,   10, 10, 10, 10, 10,
      5, 5, 5, 5, 5,        5, 5, 5, 5, 5,        2, 2, 2, 2, 2,
      1, 1, 1, 1, 1>>

LiteralN2OVermi ==
    <<150, 100, 200, 50, 30,   30, 30, 40, 50, 60,   80, 90, 100, 80, 70,
      60, 50, 40, 30, 20,      10, 10, 5, 5, 5,      5, 5, 5, 5, 5,
      2, 2, 2, 2, 2,           1, 1, 1, 1, 1,        1, 1, 1, 1, 1,
      1, 1, 1, 1, 1>>

LiteralCH4Thermo ==
    <<10, 20, 30, 50, 80,   120, 150, 180, 200, 180,   150, 120, 100, 80, 60,
      50, 40, 30, 20, 20,   10, 10, 10, 10, 10,        5, 5, 5, 5, 5,
      2, 2, 2, 2, 2,        1, 1, 1, 1, 1,             1, 1, 1, 1, 1,
      1, 1, 1, 1, 1>>

LiteralN2OThermo ==
    <<100, 80, 150, 50, 30,   40, 50, 70, 100, 120,   150, 180, 200, 180, 150,
      120, 100, 80, 60, 50,   40, 30, 20, 20, 10,     10, 10, 10, 10, 10,
      5, 5, 5, 5, 5,          2, 2, 2, 2, 2,          1, 1, 1, 1, 1,
      1, 1, 1, 1, 1>>

\* np.array([...]) of literals written in thousandths: exact entries n/1000
NpArray(lit) == [i \in 0..(Len(lit) - 1) |-> <<lit[i + 1], 1000>>]

\* p.sum() of an array of entries with one common denominator, as <<n, d>>
SomaPerfil(p) == <<Soma([i \in DOMAIN p |-> p[i][1]]), p[0][2]>>

\* mutant: the `/=` statement left out
NormalizarOmitido(p) == p

\* p /= p.sum(): (n/d) / (s/d) = n/s
Normalizar(p) == [i \in DOMAIN p |-> <<p[i][1], SomaPerfil(p)[1]>>]

\* PERFIL_N2O_PRE_DESCARTE = {1: 0.8623, 2: 0.10, 3: 0.0377}
DictPreDescarte ==
    (1 :> <<8623, 10000>>) @@ (2 :> <<1000, 10000>>) @@ (3 :> <<377, 10000>>)

\* PERFIL_N2O = {1: 0.10, 2: 0.30, 3: 0.40, 4: 0.15, 5: 0.05}
DictN2O ==
    (1 :> <<10, 100>>) @@ (2 :> <<30, 100>>) @@ (3 :> <<40, 100>>)
        @@ (4 :> <<15, 100>>) @@ (5 :> <<5, 100>>)

\* The module-level statements that build the six tables.
ConstruirPerfis ==
    [PERFIL_CH4_VERMI        |-> Normalizar(NpArray(LiteralCH4Vermi)),
     PERFIL_N2O_VERMI        |-> Normalizar(NpArray(LiteralN2OVermi)),
     PERFIL_N2O_PRE_DESCARTE |-> DictPreDescarte,
     PERFIL_N2O              |-> DictN2O,
     PERFIL_CH4_THERMO       |-> Normalizar(NpArray(LiteralCH4Thermo)),
     PERFIL_N2O_THERMO       |-> Normalizar(NpArray(LiteralN2OThermo))]

-----------------------------------------------------------------------------
(* Python array and loop helpers                                           *)

\* mutant: a negative length taken for an empty array
DimensaoNegativaAceita(D) == FALSE

\* np.zeros(D), np.ones(D) and np.full(D, v) raise ValueError ("negative
\* dimensions are not allowed") for D < 0
DimensaoNegativa(D) == D < 0

\* what a call that raised leaves: the exception, and no series
Excecao(tipo) == [erro |-> tipo]

\* mutant: the array the last call returned is taken again when it has the
\* length asked for
ZerosReaproveitados(D) ==
    IF retorno # <<>> /\ "CH4" \in DOMAIN retorno /\ DOMAIN retorno.CH4 = 0..(D - 1)
        THEN retorno.CH4
        ELSE NdArray([d \in 0..(D - 1) |-> 0])

\* np.zeros(D): a new array
Zeros(D) == NdArray([d \in 0..(D - 1) |-> 0])

\* mutant: one element too many
FullMaisUm(D, v) == NdArray([d \in 0..D |-> v])

\* np.full(D, v)
Full(D, v) == NdArray([d \in 0..(D - 1) |-> v])

\* a[i] is defined for -len(a) <= i < len(a); a negative i counts from the end
IndiceOk(a, i) == i >= -Tam(a) /\ i < Tam(a)

Posicao(a, i) == IF i < 0 THEN i + Tam(a) ELSE i

\* mutant: `=` written for `+=`
AtribuirEm(a, i, v) == [a EXCEPT ![Posicao(a, i)] = v]

\* a[i] += v
SomarEm(a, i, v) == [a EXCEPT ![Posicao(a, i)] = @ + v]

\* the working state of a batch loop: the two arrays and the locals the
\* function computed before the loop
Series(ch4, n2o, locais) ==
    [CH4 |-> ch4, N2O |-> n2o, erro |-> "", locais |-> locais]

-----------------------------------------------------------------------------
(* Pathway calculators, src/app.py lines 565-667                           *)

\* mutant: `<=` written for `<`
DentroDoHorizonteMaisUm(dia_emissao, D) == dia_emissao <= D

\* `if dia_emissao < dias_simulacao:` of the three batch loops
DentroDoHorizonte(dia_emissao, D) == dia_emissao < D

ajustar_emissoes_pre_descarte(O2_concentracao) ==
    LET ch4_ajustado == CH4_pre_descarte_g_por_kg_dia
        fator_n2o ==
            IF O2_concentracao = 21 THEN Dec(1, 1)
            ELSE IF O2_concentracao = 10 THEN Div(Dec(1111, 100), Dec(2026, 100))
            ELSE IF O2_concentracao = 1 THEN Div(Dec(786, 100), Dec(2026, 100))
            ELSE Dec(1, 1)
        n2o_ajustado == Mul(N2O_pre_descarte_g_por_kg_dia, fator_n2o)
    IN  <<ch4_ajustado, n2o_ajustado>>

\* ch4_ajustado, n2o_ajustado = ajustar_emissoes_pre_descarte(O2_concentracao)
LocaisPreDescarte(O2_concentracao) ==
    [ch4_ajustado |-> ajustar_emissoes_pre_descarte(O2_concentracao)[1],
     n2o_ajustado |-> ajustar_emissoes_pre_descarte(O2_concentracao)[2]]

\* the arrays calcular_emissoes_pre_descarte creates before its loop
InicioPreDescarte(O2_concentracao, D) ==
    LET locais == LocaisPreDescarte(O2_concentracao)
    IN  Series(Full(D, DivInt(Mul(residuos_kg_dia, locais.ch4_ajustado), 1000)),
               Zeros(D), locais)

\* residuos_kg_dia * n2o_ajustado * fracao / 1000
ParcelaPreDescarte(n2o_ajustado, fracao) ==
    DivInt(MulFrac(Mul(residuos_kg_dia, n2o_ajustado), fracao), 1000)

\* one pass of the inner loop of calcular_emissoes_pre_descarte; i is the
\* position of the item in PERFIL_N2O_PRE_DESCARTE.items()
CorpoPreDescarte(st, e, i, O2_concentracao, D) ==
    LET dias_apos_descarte == i + 1
        fracao      == perfis.PERFIL_N2O_PRE_DESCARTE[dias_apos_descarte]
        dia_emissao == e + dias_apos_descarte - 1
    IN  IF st.erro # "" \/ ~DentroDoHorizonte(dia_emissao, D) THEN st
        ELSE IF ~IndiceOk(st.N2O, dia_emissao)
        THEN [st EXCEPT !.erro = "IndexError"]
        ELSE [st EXCEPT !.N2O = SomarEm(@, dia_emissao,
                                  ParcelaPreDescarte(st.locais.n2o_ajustado,
                                                     fracao))]

\* mutant: the dry-matter fraction with its sign turned
ch4_total_por_lote_vermi_invertido(prm) ==
    LET fracao_ms == prm[1] - Dec(1, 1)
    IN  Mul(residuos_kg_dia,
            Mul(Mul(Mul(TOC_YANG, CH4_C_FRAC_YANG), Dec(16, 12)), fracao_ms))

ch4_total_por_lote_vermi(prm) ==
    LET fracao_ms == Dec(1, 1) - prm[1]
    IN  Mul(residuos_kg_dia,
            Mul(Mul(Mul(TOC_YANG, CH4_C_FRAC_YANG), Dec(16, 12)), fracao_ms))

n2o_total_por_lote_vermi(prm) ==
    LET fracao_ms == Dec(1, 1) - prm[1]
    IN  Mul(residuos_kg_dia,
            Mul(Mul(Mul(TN_YANG, N2O_N_FRAC_YANG), Dec(44, 28)), fracao_ms))

LocaisVermi(prm) ==
    [ch4_total_por_lote |-> ch4_total_por_lote_vermi(prm),
     n2o_total_por_lote |-> n2o_total_por_lote_vermi(prm)]

\* one pass of the inner loop of calcular_emissoes_vermi
CorpoVermi(st, e, k, prm, D) ==
    LET dia_emissao == e + k
    IN  IF st.erro # "" \/ ~DentroDoHorizonte(dia_emissao, D) THEN st
        ELSE IF ~IndiceOk(st.CH4, dia_emissao)
        THEN [st EXCEPT !.erro = "IndexError"]
        ELSE [st EXCEPT
                !.CH4 = SomarEm(@, dia_emissao,
                          MulFrac(st.locais.ch4_total_por_lote,
                                  perfis.PERFIL_CH4_VERMI[k])),
                !.N2O = SomarEm(@, dia_emissao,
                          MulFrac(st.locais.n2o_total_por_lote,
                                  perfis.PERFIL_N2O_VERMI[k]))]

ch4_total_por_lote_compostagem(prm) ==
    LET fracao_ms == Dec(1, 1) - prm[1]
    IN  Mul(residuos_kg_dia,
            Mul(Mul(Mul(TOC_YANG, CH4_C_FRAC_THERMO), Dec(16, 12)), fracao_ms))

\* mutant: the N2O of a batch scaled by temp_val / 25
n2o_total_por_lote_compostagem_com_temperatura(prm) ==
    LET fracao_ms == Dec(1, 1) - prm[1]
    IN  Mul(Mul(residuos_kg_dia,
                Mul(Mul(Mul(TN_YANG, N2O_N_FRAC_THERMO), Dec(44, 28)),
                    fracao_ms)),
            Div(prm[2], Dec(25, 1)))

n2o_total_por_lote_compostagem(prm) ==
    LET fracao_ms == Dec(1, 1) - prm[1]
    IN  Mul(residuos_kg_dia,
            Mul(Mul(Mul(TN_YANG, N2O_N_FRAC_THERMO), Dec(44, 28)), fracao_ms))

\* mutant: a composting batch that emits nothing
LocaisCompostagemNulos(prm) ==
    [ch4_total_por_lote |-> 0, n2o_total_por_lote |-> 0]

LocaisCompostagem(prm) ==
    [ch4_total_por_lote |-> ch4_total_por_lote_compostagem(prm),
     n2o_total_por_lote |-> n2o_total_por_lote_compostagem(prm)]

\* one pass of the inner loop of calcular_emissoes_compostagem
CorpoCompostagem(st, e, k, prm, D) ==
    LET dia_emissao == e + k
    IN  IF st.erro # "" \/ ~DentroDoHorizonte(dia_emissao, D) THEN st
        ELSE IF ~IndiceOk(st.CH4, dia_emissao)
        THEN [st EXCEPT !.erro = "IndexError"]
        ELSE [st EXCEPT
                !.CH4 = SomarEm(@, dia_emissao,
                          MulFrac(st.locais.ch4_total_por_lote,
                                  perfis.PERFIL_CH4_THERMO[k])),
                !.N2O = SomarEm(@, dia_emissao,
                          MulFrac(st.locais.n2o_total_por_lote,
                                  perfis.PERFIL_N2O_THERMO[k]))]

\* the calculators that spread batches with a nested loop
Calculadoras == {"pre_descarte", "vermi", "compostagem"}

\* number of passes of the inner loop: len(profile)
TamPerfil(f) ==
    IF f = "pre_descarte" THEN Tam(perfis.PERFIL_N2O_PRE_DESCARTE)
    ELSE IF f = "vermi" THEN Tam(perfis.PERFIL_CH4_VERMI)
    ELSE Tam(perfis.PERFIL_CH4_THERMO)

\* the locals calculator f computes from its arguments before its loop
Locais(f, prm) ==
    IF f = "pre_descarte" THEN LocaisPreDescarte(prm[1])
    ELSE IF f = "vermi" THEN LocaisVermi(prm)
    ELSE LocaisCompostagem(prm)

\* the arrays and locals calculator f holds when its loop starts
Inicio(f, prm, D) ==
    IF DimensaoNegativa(D) THEN Excecao("ValueError")
    ELSE IF f = "pre_descarte" THEN InicioPreDescarte(prm[1], D)
    ELSE Series(Zeros(D), Zeros(D), Locais(f, prm))

Corpo(f, st, e, k, prm, D) ==
    IF f = "pre_descarte" THEN CorpoPreDescarte(st, e, k, prm[1], D)
    ELSE IF f = "vermi" THEN CorpoVermi(st, e, k, prm, D)
    ELSE CorpoCompostagem(st, e, k, prm, D)

-----------------------------------------------------------------------------
(* The calculators as functions of their arguments                         *)

\* the passes k = de, ..., ate - 1 of the inner loop, in that order (the
\* range is halved to keep the evaluation shallow)
RECURSIVE PassosInternos(_, _, _, _, _, _, _)
PassosInternos(f, st, e, de, ate, prm, D) ==
    IF de >= ate \/ st.erro # "" THEN st
    ELSE IF ate = de + 1 THEN Corpo(f, st, e, de, prm, D)
    ELSE PassosInternos(f, PassosInternos(f, st, e, de, (de + ate) \div 2, prm, D),
                        e, (de + ate) \div 2, ate, prm, D)

\* the inner loop from pass k on
LacoInterno(f, st, e, k, prm, D) ==
    PassosInternos(f, st, e, k, TamPerfil(f), prm, D)

\* the passes of the outer loop for the entry days e = de, ..., ate - 1, in
\* that order (the range is halved to keep the evaluation shallow)
RECURSIVE LacoExterno(_, _, _, _, _, _)
LacoExterno(f, st, de, ate, prm, D) ==
    IF de >= ate \/ st.erro # "" THEN st
    ELSE IF ate = de + 1 THEN LacoInterno(f, st, de, 0, prm, D)
    ELSE LacoExterno(f, LacoExterno(f, st, de, (de + ate) \div 2, prm, D),
                     (de + ate) \div 2, ate, prm, D)

calcular_emissoes_pre_descarte(O2_concentracao, D) ==
    LacoExterno("pre_descarte", Inicio("pre_descarte", <<O2_concentracao>>, D),
                0, D, <<O2_concentracao>>, D)

calcular_emissoes_vermi(prm, D) ==
    LacoExterno("vermi", Inicio("vermi", prm, D), 0, D, prm, D)

calcular_emissoes_compostagem(prm, D) ==
    LacoExterno("compostagem", Inicio("compostagem", prm, D), 0, D, prm, D)

\* np.exp(x) in fixed point: the power series, summed until a term vanishes
RECURSIVE ExpSerie(_, _, _)
ExpSerie(x, termo, n) ==
    IF termo = 0 THEN 0
    ELSE termo + ExpSerie(x, DivInt(Mul(termo, x), n + 1), n + 1)

Exp(x) == ExpSerie(x, UM, 0)

\* mutant: the two exponentials of the kernel swapped
KernelTrocado(t) ==
    Exp(DivInt(MulInt(-k_ano, t), 365)) - Exp(DivInt(MulInt(-k_ano, t - 1), 365))

\* kernel_ch4 at t = 1, 2, ...:
\* np.exp(-k_ano * (t - 1) / 365.0) - np.exp(-k_ano * t / 365.0)
KernelCH4(t) ==
    Exp(DivInt(MulInt(-k_ano, t - 1), 365)) - Exp(DivInt(MulInt(-k_ano, t), 365))

kernel_ch4(D) == NdArray([i \in 0..(D - 1) |-> KernelCH4(i + 1)])

\* sum of a[j] * b[d - j] for j = lo..hi
RECURSIVE SomaProdutos(_, _, _, _, _)
SomaProdutos(a, b, d, lo, hi) ==
    IF lo > hi THEN 0
    ELSE IF lo = hi THEN Mul(a[lo], b[d - lo])
    ELSE SomaProdutos(a, b, d, lo, (lo + hi) \div 2)
         + SomaProdutos(a, b, d, (lo + hi) \div 2 + 1, hi)

Max(x, y) == IF x >= y THEN x ELSE y

Min(x, y) == IF x <= y THEN x ELSE y

\* mutant: mode='same', the D entries in the middle of the convolution
fftconvolveSame(a, b, D) ==
    NdArray([d \in 0..(D - 1) |->
        SomaProdutos(a, b, d + (Tam(b) - 1) \div 2,
                     Max(0, d + (Tam(b) - 1) \div 2 - (Tam(b) - 1)),
                     Min(d + (Tam(b) - 1) \div 2, Tam(a) - 1))])

\* fftconvolve(a, b, mode='full')[:D]: the linear convolution, cut to D
fftconvolve(a, b, D) ==
    NdArray([d \in 0..(D - 1) |->
        SomaProdutos(a, b, d, Max(0, d - (Tam(b) - 1)), Min(d, Tam(a) - 1))])

\* np.clip(x, lo, hi)
Clip(x, lo, hi) == Max(lo, Min(x, hi))

\* mutant: doc_val left out of the product
PotencialSemDoc(prm) ==
    LET docf_calc == Mul(Dec(147, 10000), prm[2]) + Dec(28, 100)
    IN  Mul(residuos_kg_dia,
            Mul(Mul(Mul(Mul(Mul(docf_calc, MCF), F), Dec(16, 12)),
                    Dec(1, 1) - Ri), Dec(1, 1) - OX))

\* the local potencial_CH4_lote_diario of calcular_emissoes_aterro
potencial_CH4_lote_diario(prm) ==
    LET doc_val   == prm[3]
        docf_calc == Mul(Dec(147, 10000), prm[2]) + Dec(28, 100)
        potencial_CH4_por_kg ==
            Mul(Mul(Mul(Mul(Mul(Mul(doc_val, docf_calc), MCF), F), Dec(16, 12)),
                    Dec(1, 1) - Ri), Dec(1, 1) - OX)
    IN  Mul(residuos_kg_dia, potencial_CH4_por_kg)

\* the decay part of the landfill CH4 series:
\* fftconvolve(ones, kernel_ch4)[:D] * potencial_CH4_lote_diario
DecaimentoCH4(prm, D) ==
    Seja(<<fftconvolve(Full(D, Dec(1, 1)), kernel_ch4(D), D),
           potencial_CH4_lote_diario(prm)>>,
         LAMBDA v : NdArray([d \in 0..(D - 1) |-> Mul(v[1][d], v[2])]))

\* the local emissao_diaria_N2O of calcular_emissoes_aterro
emissao_diaria_N2O(prm) ==
    Seja(<<Div(Dec(1, 1) - prm[1], Dec(1, 1) - Dec(55, 100)),
           Clip(Mul(Div(massa_exposta_kg, residuos_kg_dia),
                    DivInt(h_exposta, 24)), Dec(0, 1), Dec(1, 1))>>,
         LAMBDA v :
           LET fator_umid  == v[1]
               f_aberto    == v[2]
               E_aberto    == Dec(191, 100)
               E_fechado   == Dec(215, 100)
               E_medio     == Mul(f_aberto, E_aberto)
                              + Mul(Dec(1, 1) - f_aberto, E_fechado)
               E_medio_ajust == Mul(E_medio, fator_umid)
           IN  Mul(DivInt(Mul(E_medio_ajust, Dec(44, 28)), 1000000),
                   residuos_kg_dia))

\* np.array([PERFIL_N2O.get(d, 0) for d in range(1, 6)])
kernel_n2o ==
    NdArray([i \in 0..4 |->
                IF i + 1 \in DOMAIN perfis.PERFIL_N2O
                THEN Dec(perfis.PERFIL_N2O[i + 1][1], perfis.PERFIL_N2O[i + 1][2])
                ELSE 0])

\* the landfill N2O series before the pre-disposal part is added
EspalhamentoN2O(prm, D) ==
    Seja(emissao_diaria_N2O(prm),
         LAMBDA emissao : fftconvolve(Full(D, emissao), kernel_n2o, D))

\* a + b of two arrays of one length, element by element
SomarArrays(a, b) ==
    Seja(<<a, b>>, LAMBDA v : NdArray([d \in DOMAIN v[1] |-> v[1][d] + v[2][d]]))

\* the decay and profile parts, then the pre-disposal series (O2 = 21) added
calcular_emissoes_aterro(prm, D) ==
    IF DimensaoNegativa(D) THEN Excecao("ValueError")
    ELSE Seja(calcular_emissoes_pre_descarte(21, D),
              LAMBDA pre :
                [CH4  |-> SomarArrays(DecaimentoCH4(prm, D), pre.CH4),
                 N2O  |-> SomarArrays(EspalhamentoN2O(prm, D), pre.N2O),
                 erro |-> pre.erro])

\* mutant: the two GWP factors swapped
TotalTCO2eqTrocado(s) ==
    NdArray([d \in DOMAIN s.CH4 |->
        DivInt(Mul(s.CH4[d], GWP_N2O_20) + Mul(s.N2O[d], GWP_CH4_20), 1000)])

\* (ch4 * GWP_CH4_20 + n2o * GWP_N2O_20) / 1000, element by element
TotalTCO2eq(s) ==
    NdArray([d \in DOMAIN s.CH4 |->
        DivInt(Mul(s.CH4[d], GWP_CH4_20) + Mul(s.N2O[d], GWP_N2O_20), 1000)])

\* mutant: the project total minus the baseline total
ReducaoInvertida(aterro, projeto) ==
    Soma(TotalTCO2eq(projeto)) - Soma(TotalTCO2eq(aterro))

\* total_aterro_tco2eq.sum() - total_vermi_tco2eq.sum() (or compost)
ReducaoTotal(aterro, projeto) ==
    Seja(TotalTCO2eq(aterro),
         LAMBDA total_aterro_tco2eq :
           Seja(TotalTCO2eq(projeto),
                LAMBDA total_projeto_tco2eq :
                  Soma(total_aterro_tco2eq) - Soma(total_projeto_tco2eq)))

executar_simulacao_completa(parametros) ==
    Seja(calcular_emissoes_aterro(parametros, dias),
         LAMBDA aterro :
           Seja(calcular_emissoes_vermi(parametros, dias),
                LAMBDA vermi : ReducaoTotal(aterro, vermi)))

executar_simulacao_unfccc(parametros) ==
    Seja(calcular_emissoes_aterro(parametros, dias),
         LAMBDA aterro :
           Seja(calcular_emissoes_compostagem(parametros, dias),
                LAMBDA compost : ReducaoTotal(aterro, compost)))

-----------------------------------------------------------------------------
(* The series of the calculators over a long horizon.  Every batch adds    *)
(* the same parcels, so day d holds the parcels 0..min(d, n - 1) of the    *)
(* batches that entered on days d, d - 1, ...; LemaSeriesDosLacos and      *)
(* LemaSerieAterro compare these with the loops and the convolutions.      *)

\* the series n equal batches, one per day, leave when batch e adds
\* parcelas[k] on day e + k
SerieDosLotes(parcelas, D) ==
    Seja(NdArray([k \in DOMAIN parcelas |-> SomaAte(parcelas, k + 1)]),
         LAMBDA ac : NdArray([d \in 0..(D - 1) |-> ac[Min(d, Tam(ac) - 1)]]))

\* what the loop of calcular_emissoes_pre_descarte leaves in its arrays
SeriePreDescarte(O2_concentracao, D) ==
    Seja(LocaisPreDescarte(O2_concentracao),
         LAMBDA locais :
           [CH4 |-> Full(D, DivInt(Mul(residuos_kg_dia, locais.ch4_ajustado),
                                   1000)),
            N2O |-> SerieDosLotes(
                      NdArray([i \in 0..(Tam(perfis.PERFIL_N2O_PRE_DESCARTE) - 1)
                                 |-> ParcelaPreDescarte(locais.n2o_ajustado,
                                       perfis.PERFIL_N2O_PRE_DESCARTE[i + 1])]),
                      D),
            erro |-> ""])

\* what the loop of calcular_emissoes_vermi leaves in its arrays
SerieVermi(prm, D) ==
    Seja(LocaisVermi(prm),
         LAMBDA locais :
           [CH4 |-> SerieDosLotes(
                      NdArray([k \in DOMAIN perfis.PERFIL_CH4_VERMI |->
                                 MulFrac(locais.ch4_total_por_lote,
                                         perfis.PERFIL_CH4_VERMI[k])]), D),
            N2O |-> SerieDosLotes(
                      NdArray([k \in DOMAIN perfis.PERFIL_N2O_VERMI |->
                                 MulFrac(locais.n2o_total_por_lote,
                                         perfis.PERFIL_N2O_VERMI[k])]), D),
            erro |-> ""])

\* what the loop of calcular_emissoes_compostagem leaves in its arrays
SerieCompostagem(prm, D) ==
    Seja(LocaisCompostagem(prm),
         LAMBDA locais :
           [CH4 |-> SerieDosLotes(
                      NdArray([k \in DOMAIN perfis.PERFIL_CH4_THERMO |->
                                 MulFrac(locais.ch4_total_por_lote,
                                         perfis.PERFIL_CH4_THERMO[k])]), D),
            N2O |-> SerieDosLotes(
                      NdArray([k \in DOMAIN perfis.PERFIL_N2O_THERMO |->
                                 MulFrac(locais.n2o_total_por_lote,
                                         perfis.PERFIL_N2O_THERMO[k])]), D),
            erro |-> ""])

\* what calcular_emissoes_aterro returns: the kernel sums to
\* 1 - exp(-k_ano * (d + 1) / 365) over the days 0..d, and the N2O
\* convolution spreads one constant daily emission over kernel_n2o
SerieAterro(prm, D) ==
    Seja(<<potencial_CH4_lote_diario(prm), emissao_diaria_N2O(prm),
           SeriePreDescarte(21, D)>>,
         LAMBDA v :
           [CH4 |-> SomarArrays(
                      NdArray([d \in 0..(D - 1) |->
                        Mul(Dec(1, 1) - Exp(DivInt(MulInt(-k_ano, d + 1), 365)),
                            v[1])]),
                      v[3].CH4),
            N2O |-> SomarArrays(
                      SerieDosLotes(NdArray([k \in DOMAIN kernel_n2o |->
                                               Mul(v[2], kernel_n2o[k])]), D),
                      v[3].N2O),
            erro |-> ""])

-----------------------------------------------------------------------------
(* The generators.  np.random is one generator shared by the whole         *)
(* process; its state is an integer below PeriodoRNG, a draw advances it   *)
(* by one step and yields u in [0, 1).  A distribution is a deterministic  *)
(* function of the draws it consumes.                                      *)

PeriodoRNG == 2048

\* np.random.seed(seed): the state is a function of the seed alone
Semear(seed) == (seed * 977 + 1) % PeriodoRNG

\* the state after one draw
Proximo(estado) == (estado * 1341 + 1) % PeriodoRNG

\* the float in [0, 1) read from a state
Fracao(estado) == (estado * UM) \div PeriodoRNG

\* the greatest r in lo..hi with r * r <= x
RECURSIVE RaizEntre(_, _, _)
RaizEntre(x, lo, hi) ==
    IF lo >= hi THEN lo
    ELSE LET m == (lo + hi + 1) \div 2
         IN  IF m * m <= x THEN RaizEntre(x, m, hi) ELSE RaizEntre(x, lo, m - 1)

\* np.sqrt of a fixed-point number below 0.002
Raiz(x) == RaizEntre(x * UM, 0, 46340)

\* one value of np.random.uniform(low, high): <<value, state after>>
Uniforme(estado, low, high) ==
    <<low + Mul(high - low, Fracao(Proximo(estado))), Proximo(estado)>>

\* one value of np.random.normal(loc, scale): two draws, centred on loc
Normal(estado, loc, scale) ==
    LET s1 == Proximo(estado)
        s2 == Proximo(s1)
    IN  <<loc + Mul(scale, MulInt(Fracao(s1) + Fracao(s2) - Dec(1, 1), 2)), s2>>

\* one value of np.random.triangular(left, mode, right): the inverse of the
\* distribution function at one draw
Triangular(estado, left, mode, right) ==
    LET s1 == Proximo(estado)
        u  == Fracao(s1)
        base == right - left
    IN  <<IF u <= Div(mode - left, base)
          THEN left + Raiz(Mul(Mul(u, base), mode - left))
          ELSE right - Raiz(Mul(Mul(Dec(1, 1) - u, base), right - mode)),
          s1>>

\* one value of the distribution dist, as <<value, state after>>
Sortear(dist, estado) ==
    IF dist = "umidade" THEN Uniforme(estado, Dec(75, 100), Dec(90, 100))
    ELSE IF dist = "temp" THEN Normal(estado, Dec(25, 1), Dec(3, 1))
    ELSE Triangular(estado, Dec(12, 100), Dec(15, 100), Dec(18, 100))

\* np.random.<dist>(..., n): n values drawn one after the other, as
\* [vals, estado]
RECURSIVE SortearN(_, _, _)
SortearN(dist, estado, n) ==
    IF n = 0 THEN [vals |-> <<>>, estado |-> estado]
    ELSE LET antes == SortearN(dist, estado, n - 1)
             v     == Sortear(dist, antes.estado)
         IN  [vals |-> Append(antes.vals, v[1]), estado |-> v[2]]

\* the three arrays of a Monte Carlo episode drawn from estado: all the
\* moistures, then all the temperatures, then all the DOC values
SortearParametros(estado, n) ==
    LET u == SortearN("umidade", estado, n)
        t == SortearN("temp", u.estado, n)
        d == SortearN("doc", t.estado, n)
    IN  [umidade_vals |-> u.vals, temp_vals |-> t.vals, doc_vals |-> d.vals,
         estado |-> d.estado]

\* gerar_parametros_mc_tese(n), called when the shared state is estado
gerar_parametros_mc_tese(estado, n) == SortearParametros(Semear(50), n)

\* gerar_parametros_mc_unfccc(n), called when the shared state is estado
\* mutant: the UNFCCC draws go on from the state the generator is in
gerar_parametros_mc_unfccc_sem_seed(estado, n) == SortearParametros(estado, n)

gerar_parametros_mc_unfccc(estado, n) == SortearParametros(Semear(50), n)

\* mutant: the iteration does not seed the generator
SortearSemSeed(estado, seed, n) == SortearParametros(estado, n)

\* lines 1578-1583: np.random.seed(seed), then the three arrays
SortearDaIteracao(estado, seed, n) == SortearParametros(Semear(seed), n)

-----------------------------------------------------------------------------
(* The batch loops, one pass of the inner loop per step                    *)

MaxDias == 51

\* horizon lengths of a call: empty, one day, shorter than every profile's
\* reach, and longer than the 50-day profiles
DiasChamada == {0, 1, 3, MaxDias}

LoteVazio == [entrada |-> -1, passos |-> 0, CH4 |-> 0, N2O |-> 0]

\* the sidebar values of a script run
Sidebar ==
    /\ residuos_kg_dia \in {Dec(100, 1), Dec(1000, 1)}
    /\ umidade \in {DivInt(Dec(85, 1), 100)}
    /\ massa_exposta_kg \in {Dec(100, 1)}
    /\ h_exposta \in {Dec(8, 1)}

\* argument tuples of a call of calculator f
Argumentos(f) ==
    IF f = "pre_descarte" THEN {<<21>>, <<10>>, <<1>>, <<5>>}
    ELSE {<<umidade, T, DOC>>}

Init ==
    /\ Sidebar
    /\ perfis = [x \in {} |-> 0]
    /\ pc = "modulo"
    /\ fn = ""
    /\ params = <<>>
    /\ dias_simulacao = 0
    /\ dia_entrada = 0
    /\ dia_compostagem = 0
    /\ emissoes_CH4 = <<>>
    /\ emissoes_N2O = <<>>
    /\ erro = ""
    /\ lote = LoteVazio
    /\ dias = 0
    /\ chamada_aterro = <<>>
    /\ retorno = <<>>
    /\ SemRelatorio
    /\ SemMC
    /\ SemSessao

\* the module-level code up to the function definitions has run
ExecutarModulo ==
    /\ pc = "modulo"
    /\ perfis' = ConstruirPerfis
    /\ rng' = Semear(50)
    /\ pc' = "pronto"
    /\ UNCHANGED <<session_state,
                   residuos_kg_dia, umidade, massa_exposta_kg, h_exposta, fn,
                   params, dias_simulacao, dia_entrada, dia_compostagem,
                   emissoes_CH4, emissoes_N2O, erro, lote, dias, chamada_aterro,
                   retorno, vars_relatorio, ultimo, lembrado, n_simulations,
                   robustez, avaliacoes>>

\* a calculator is called: it creates its arrays and enters its loop
Chamar ==
    /\ pc = "pronto"
    /\ \E f \in Calculadoras : \E prm \in Argumentos(f) : \E D \in DiasChamada :
         LET st == Inicio(f, prm, D)
         IN  /\ fn' = f
             /\ params' = prm
             /\ dias_simulacao' = D
             /\ emissoes_CH4' = st.CH4
             /\ emissoes_N2O' = st.N2O
             /\ pc' = IF D = 0 THEN "retornou" ELSE "loop"
    /\ dia_entrada' = 0
    /\ dia_compostagem' = 0
    /\ erro' = ""
    /\ lote' = LoteVazio
    /\ UNCHANGED <<session_state,
                   residuos_kg_dia, umidade, massa_exposta_kg, h_exposta, perfis,
                   dias, chamada_aterro, retorno,
                   vars_relatorio, vars_mc>>

\* one pass of the inner loop, then the loop variables advance
PassoLoop ==
    /\ pc = "loop"
    /\ LET st == Corpo(fn, [CH4 |-> emissoes_CH4, N2O |-> emissoes_N2O,
                            erro |-> erro, locais |-> Locais(fn, params)],
                       dia_entrada, dia_compostagem, params, dias_simulacao)
           dCH4 == Soma(st.CH4) - Soma(emissoes_CH4)
           dN2O == Soma(st.N2O) - Soma(emissoes_N2O)
           ultimo_k == dia_compostagem + 1 = TamPerfil(fn)
           ultimo_e == dia_entrada + 1 = dias_simulacao
       IN  /\ emissoes_CH4' = st.CH4
           /\ emissoes_N2O' = st.N2O
           /\ erro' = st.erro
           /\ lote' = IF dia_compostagem = 0
                      THEN [entrada |-> dia_entrada, passos |-> 1,
                            CH4 |-> dCH4, N2O |-> dN2O]
                      ELSE [entrada |-> dia_entrada, passos |-> lote.passos + 1,
                            CH4 |-> lote.CH4 + dCH4, N2O |-> lote.N2O + dN2O]
           /\ pc' = IF st.erro # "" THEN "excecao"
                    ELSE IF ultimo_k /\ ultimo_e THEN "retornou" ELSE "loop"
           /\ dia_compostagem' = IF ultimo_k THEN 0 ELSE dia_compostagem + 1
           /\ dia_entrada' = IF ultimo_k THEN dia_entrada + 1 ELSE dia_entrada
    /\ UNCHANGED <<session_state,
                   residuos_kg_dia, umidade, massa_exposta_kg, h_exposta, perfis,
                   fn, params, dias_simulacao, dias, chamada_aterro, retorno,
                   vars_relatorio, vars_mc>>

Next == ExecutarModulo \/ Chamar \/ PassoLoop

Spec == Init /\ [][Next]_vars

\* lemma: a calculator that has returned left in its arrays the series of
\* the long-horizon form
LemaSeriesDosLacos ==
    pc = "retornou" =>
        LET longa == IF fn = "pre_descarte"
                     THEN SeriePreDescarte(params[1], dias_simulacao)
                     ELSE IF fn = "vermi" THEN SerieVermi(params, dias_simulacao)
                     ELSE SerieCompostagem(params, dias_simulacao)
        IN  /\ emissoes_CH4 = longa.CH4
            /\ emissoes_N2O = longa.N2O

-----------------------------------------------------------------------------
(* Claims about the batch loops and the profile tables (Spec)              *)

\* the day the pass at hand would write to
DiaDoPasso ==
    IF fn = "pre_descarte"
    THEN dia_entrada + (dia_compostagem + 1) - 1
    ELSE dia_entrada + dia_compostagem

\* batch total times profile fraction at offset k, per gas, for the call
\* at hand
ParcelaCH4(k) ==
    IF fn = "vermi"
    THEN MulFrac(ch4_total_por_lote_vermi(params), perfis.PERFIL_CH4_VERMI[k])
    ELSE IF fn = "compostagem"
    THEN MulFrac(ch4_total_por_lote_compostagem(params),
                 perfis.PERFIL_CH4_THERMO[k])
    ELSE 0

ParcelaN2O(k) ==
    IF fn = "vermi"
    THEN MulFrac(n2o_total_por_lote_vermi(params), perfis.PERFIL_N2O_VERMI[k])
    ELSE IF fn = "compostagem"
    THEN MulFrac(n2o_total_por_lote_compostagem(params),
                 perfis.PERFIL_N2O_THERMO[k])
    ELSE ParcelaPreDescarte(ajustar_emissoes_pre_descarte(params[1])[2],
                            perfis.PERFIL_N2O_PRE_DESCARTE[k + 1])

\* array b is array a with v added at index d and nothing else changed
SomadoSoEm(a, b, d, v) ==
    /\ DOMAIN b = DOMAIN a
    /\ \A i \in DOMAIN a : b[i] = IF i = d THEN a[i] + v ELSE a[i]

\* C1: in every pass of a batch loop (pre-disposal, vermicompost,
\* thermophilic compost) with entry day e and profile offset k, if e + k >= D
\* nothing is written to either series and no error is raised, and if
\* e + k < D the batch total times the profile fraction is added once to
\* index e + k and to no other index; so a batch entering on day D-1 adds
\* only its offset-0 fraction.
C1_TruncamentoNoHorizonte ==
    /\ [](pc \in {"loop", "retornou"} =>
            /\ erro = ""
            /\ DOMAIN emissoes_CH4 = 0..(dias_simulacao - 1)
            /\ DOMAIN emissoes_N2O = 0..(dias_simulacao - 1)
            /\ (dias_simulacao > 0 /\ lote.entrada = dias_simulacao - 1) =>
                  /\ lote.CH4 = ParcelaCH4(0)
                  /\ lote.N2O = ParcelaN2O(0))
    /\ [][pc = "loop" =>
            /\ erro' = ""
            /\ DiaDoPasso >= dias_simulacao =>
                  /\ emissoes_CH4' = emissoes_CH4
                  /\ emissoes_N2O' = emissoes_N2O
            /\ DiaDoPasso < dias_simulacao =>
                  /\ SomadoSoEm(emissoes_CH4, emissoes_CH4', DiaDoPasso,
                                ParcelaCH4(dia_compostagem))
                  /\ SomadoSoEm(emissoes_N2O, emissoes_N2O', DiaDoPasso,
                                ParcelaN2O(dia_compostagem))]_vars

\* the batch of the last day has added its offset-0 fraction and its later
\* offsets are being dropped
C1_Witness ==
    /\ pc = "loop"
    /\ fn = "vermi"
    /\ dias_simulacao = MaxDias
    /\ dia_entrada = dias_simulacao - 1
    /\ dia_compostagem = 7
    /\ lote.entrada = dia_entrada
    /\ lote.CH4 > 0
    /\ emissoes_CH4[dias_simulacao - 1] > 0

\* C2: for vermicompost and thermophilic compost, a batch whose 50-day
\* window lies inside the horizon (entry_day + 49 < D) has added to the CH4
\* series amounts that sum to ch4_total_por_lote, and to the N2O series
\* amounts that sum to n2o_total_por_lote; each of the 50 products is
\* truncated to a whole unit, so the sum may fall short by less than one
\* unit per offset.
C2_ConservacaoPorLote ==
    (/\ pc \in {"loop", "retornou"}
     /\ fn \in {"vermi", "compostagem"}
     /\ lote.passos = TamPerfil(fn)
     /\ lote.entrada + TamPerfil(fn) - 1 < dias_simulacao) =>
        LET ch4 == IF fn = "vermi" THEN ch4_total_por_lote_vermi(params)
                   ELSE ch4_total_por_lote_compostagem(params)
            n2o == IF fn = "vermi" THEN n2o_total_por_lote_vermi(params)
                   ELSE n2o_total_por_lote_compostagem(params)
        IN  /\ ch4 - lote.CH4 \in 0..(TamPerfil(fn) - 1)
            /\ n2o - lote.N2O \in 0..(TamPerfil(fn) - 1)

\* the second batch of a thermophilic call has been spread in full over
\* days that already held the first batch's amounts
C2_Witness ==
    /\ fn = "compostagem"
    /\ dias_simulacao = MaxDias
    /\ lote.entrada = 1
    /\ lote.passos = 50
    /\ lote.CH4 > 1000
    /\ lote.N2O > 1000

RECURSIVE SomaNumeradores(_, _)
SomaNumeradores(p, S) ==
    IF S = {} THEN 0
    ELSE LET i == CHOOSE x \in S : TRUE
         IN  p[i][1] + SomaNumeradores(p, S \ {i})

\* the entries of a table are fractions >= 0 that sum to exactly 1
PerfilNormalizado(p) ==
    LET soma == SomaNumeradores(p, DOMAIN p)
    IN  \A i \in DOMAIN p : p[i][1] >= 0 /\ p[i][2] > 0 /\ p[i][2] = soma

-----------------------------------------------------------------------------
(* SpecFn: the landfill calculator and the scalar evaluators applied to    *)
(* parameter triples                                                       *)

MaxDiasFn == 12

MaxDiasAterro == 20

\* module-level horizons of a run of the evaluators
DiasFn == {1, MaxDiasFn}

\* horizons of a call of calcular_emissoes_aterro
DiasAterro == {1, MaxDiasAterro}

UmidadeVals == {Dec(50, 100), Dec(85, 100), Dec(90, 100)}

TempVals == {Dec(16, 1), Dec(25, 1), Dec(45, 1)}

DocVals == {Dec(12, 100), Dec(15, 100), Dec(50, 100)}

\* parameter triples: the base case, Monte Carlo draws, Sobol design points
Triplas == UmidadeVals \X TempVals \X DocVals

SemLaco ==
    /\ fn = ""
    /\ params = <<>>
    /\ dias_simulacao = 0
    /\ dia_entrada = 0
    /\ dia_compostagem = 0
    /\ emissoes_CH4 = <<>>
    /\ emissoes_N2O = <<>>
    /\ erro = ""
    /\ lote = LoteVazio

InitFn ==
    /\ Sidebar
    /\ perfis = [x \in {} |-> 0]
    /\ pc = "modulo"
    /\ SemLaco
    /\ dias \in DiasFn
    /\ chamada_aterro = <<>>
    /\ retorno = <<>>
    /\ SemRelatorio
    /\ SemMC
    /\ SemSessao

\* calcular_emissoes_aterro(prm, D) is called and returns
ChamarAterro ==
    /\ pc = "pronto"
    /\ \E prm \in Triplas : \E D \in DiasAterro :
         \E r \in {calcular_emissoes_aterro(prm, D)} :
             chamada_aterro' =
                 [params |-> prm, dias_simulacao |-> D,
                  potencial_CH4_lote_diario |-> potencial_CH4_lote_diario(prm),
                  decaimento |-> DecaimentoCH4(prm, D),
                  CH4 |-> r.CH4, N2O |-> r.N2O]
    /\ pc' = "aterro"
    /\ UNCHANGED <<session_state,
                   residuos_kg_dia, umidade, massa_exposta_kg, h_exposta, perfis,
                   fn, params, dias_simulacao, dia_entrada, dia_compostagem,
                   emissoes_CH4, emissoes_N2O, erro, lote, dias, retorno,
                   vars_relatorio, vars_mc>>

\* executar_simulacao_completa(prm) is called and returns
ExecutarSimulacaoCompleta ==
    /\ pc = "pronto"
    /\ \E prm \in Triplas :
         retorno' = [parametros |-> prm,
                     completa |-> executar_simulacao_completa(prm),
                     unfccc |-> 0,
                     retornaram |-> {"completa"}]
    /\ pc' = "avaliado"
    /\ UNCHANGED <<session_state,
                   residuos_kg_dia, umidade, massa_exposta_kg, h_exposta, perfis,
                   fn, params, dias_simulacao, dia_entrada, dia_compostagem,
                   emissoes_CH4, emissoes_N2O, erro, lote, dias, chamada_aterro,
                   vars_relatorio, vars_mc>>

\* executar_simulacao_unfccc is called with the same triple and returns
ExecutarSimulacaoUnfccc ==
    /\ pc = "avaliado"
    /\ "unfccc" \notin retorno.retornaram
    /\ retorno' = [retorno EXCEPT
                     !.unfccc = executar_simulacao_unfccc(retorno.parametros),
                     !.retornaram = @ \cup {"unfccc"}]
    /\ UNCHANGED <<session_state,
                   residuos_kg_dia, umidade, massa_exposta_kg, h_exposta, perfis,
                   pc, fn, params, dias_simulacao, dia_entrada, dia_compostagem,
                   emissoes_CH4, emissoes_N2O, erro, lote, dias, chamada_aterro,
                   vars_relatorio, vars_mc>>

NextFn ==
    \/ ExecutarModulo
    \/ ChamarAterro
    \/ ExecutarSimulacaoCompleta
    \/ ExecutarSimulacaoUnfccc

SpecFn == InitFn /\ [][NextFn]_vars

\* lemma: the arrays calcular_emissoes_aterro returned are the series of the
\* long-horizon form
LemaSerieAterro ==
    pc = "aterro" =>
        LET longa == SerieAterro(chamada_aterro.params,
                                 chamada_aterro.dias_simulacao)
        IN  /\ chamada_aterro.CH4 = longa.CH4
            /\ chamada_aterro.N2O = longa.N2O

-----------------------------------------------------------------------------
(* Claims about the landfill calculator and the evaluators (SpecFn)        *)

\* sum over all days of (CH4[d] * 79.7 + N2O[d] * 273) / 1000
SomaCO2eq(s, n) ==
    SomaEntre([d \in 0..(n - 1) |->
                  DivInt(Mul(s.CH4[d], Dec(797, 10)) + Mul(s.N2O[d], Dec(273, 1)),
                         1000)],
              0, n - 1)

\* C4: for every parameter triple, executar_simulacao_completa returns the
\* sum over all D days of (CH4_landfill[d]*79.7 + N2O_landfill[d]*273)/1000
\* minus the same sum over the vermicompost series, and
\* executar_simulacao_unfccc returns the same expression with the
\* thermophilic-composting series as the project; both use the same
\* landfill series for that triple.
C4_ReducaoEhAterroMenosProjeto ==
    pc = "avaliado" =>
        \A aterro \in {calcular_emissoes_aterro(retorno.parametros, dias)} :
        \A vermi \in {calcular_emissoes_vermi(retorno.parametros, dias)} :
        \A compost \in {calcular_emissoes_compostagem(retorno.parametros, dias)} :
        \A linha_de_base \in {SomaCO2eq(aterro, dias)} :
            /\ retorno.completa = linha_de_base - SomaCO2eq(vermi, dias)
            /\ "unfccc" \in retorno.retornaram =>
                  retorno.unfccc = linha_de_base - SomaCO2eq(compost, dias)

\* both evaluators have returned for the base triple over the longest
\* horizon, with different results
C4_Witness ==
    /\ pc = "avaliado"
    /\ dias = MaxDiasFn
    /\ retorno.parametros = <<Dec(85, 100), Dec(25, 1), Dec(15, 100)>>
    /\ "unfccc" \in retorno.retornaram
    /\ retorno.completa > 0
    /\ retorno.completa > retorno.unfccc

\* C7: for a single batch the decay kernel
\* kernel(t) = exp(-k(t-1)/365) - exp(-k*t/365), t = 1..D, has no negative
\* entry and its partial sum over the first n days is 1 - exp(-k*n/365), at
\* most 1; so what the batch has emitted within n days (the decay part of
\* the landfill CH4 series on day n - 1) is never above
\* potencial_CH4_lote_diario and does not decrease with n.
C7_KernelDeDecaimento ==
    pc = "aterro" =>
        LET D   == chamada_aterro.dias_simulacao
            pot == chamada_aterro.potencial_CH4_lote_diario
            dec == chamada_aterro.decaimento
            ker == kernel_ch4(D)
        IN  /\ \A t \in 1..D : ker[t - 1] >= 0
            /\ \A n \in 1..D :
                  /\ SomaAte(ker, n) = Dec(1, 1) - Exp(DivInt(MulInt(-k_ano, n), 365))
                  /\ SomaAte(ker, n) <= Dec(1, 1)
                  /\ dec[n - 1] = Mul(SomaAte(ker, n), pot)
                  /\ dec[n - 1] >= 0
                  /\ dec[n - 1] <= pot
                  /\ n > 1 => dec[n - 2] <= dec[n - 1]

\* a landfill call over the longest horizon whose decay series has grown
C7_Witness ==
    /\ pc = "aterro"
    /\ chamada_aterro.dias_simulacao = MaxDiasAterro
    /\ chamada_aterro.decaimento[0] > 0
    /\ chamada_aterro.decaimento[MaxDiasAterro - 1]
           > 2 * chamada_aterro.decaimento[0]

-----------------------------------------------------------------------------
(* SpecAnual: the deterministic report, src/app.py lines 1814-1891         *)

MaxAnos == 10

MaxAnoInicio == 2029

\* st.slider("Anos de simulação", 5, 50, 20, 5), up to MaxAnos
AnosVals == {a \in 5..MaxAnos : a % 5 = 0}

\* values of datetime.now().year
AnoInicioVals == (MaxAnoInicio - 5)..MaxAnoInicio

EhBissexto(ano) == (ano % 4 = 0 /\ ano % 100 # 0) \/ ano % 400 = 0

DiasNoAno(ano) == IF EhBissexto(ano) THEN 366 ELSE 365

\* the year of the date d days after 1 January of ano
RECURSIVE AnoDaData(_, _)
AnoDaData(ano, d) ==
    IF d < DiasNoAno(ano) THEN ano ELSE AnoDaData(ano + 1, d - DiasNoAno(ano))

\* pd.date_range(start=data_inicio, periods=dias, freq='D') and then
\* df['Data'].dt.year: the year of each simulated date
ColunaYear(inicio, D) == NdArray([d \in 0..(D - 1) |-> AnoDaData(inicio, d)])

\* kg * GWP / 1000, element by element
ParaTCO2eq(kg, gwp) == NdArray([d \in DOMAIN kg |-> DivInt(Mul(kg[d], gwp), 1000)])

\* mutant: only the years with all their calendar days are kept
ChavesDeAnosCompletos(Year) ==
    {y \in {Year[d] : d \in DOMAIN Year} :
        Cardinality({d \in DOMAIN Year : Year[d] = y}) = DiasNoAno(y)}

\* mutant: the group of the last year of the horizon is dropped
ChavesSemUltima(Year) ==
    {Year[d] : d \in DOMAIN Year} \ {Year[Tam(Year) - 1]}

\* the keys of groupby('Year')
Chaves(Year) == {Year[d] : d \in DOMAIN Year}

\* the sum of col over the rows lo..hi whose key is y
RECURSIVE SomaGrupo(_, _, _, _, _)
SomaGrupo(col, Year, y, lo, hi) ==
    IF lo > hi THEN 0
    ELSE IF lo = hi THEN (IF Year[lo] = y THEN col[lo] ELSE 0)
    ELSE SomaGrupo(col, Year, y, lo, (lo + hi) \div 2)
         + SomaGrupo(col, Year, y, (lo + hi) \div 2 + 1, hi)

\* the keys of a set in ascending order
Ordenar(S) ==
    [i \in 1..Cardinality(S) |->
        CHOOSE x \in S : Cardinality({z \in S : z < x}) = i - 1]

\* df.groupby('Year').agg({...: 'sum'}).reset_index(): one row per key in
\* ascending order, with the sum of each column of cols over the group
\* (n_dias, the size of the group, is kept for the claims)
GroupbySum(Year, cols) ==
    Seja(Ordenar(Chaves(Year)),
         LAMBDA anos :
           NdArray([i \in 1..Len(anos) |->
              [Year   |-> anos[i],
               n_dias |-> SomaGrupo([d \in DOMAIN Year |-> 1], Year, anos[i],
                                    0, Tam(Year) - 1),
               soma   |-> NdArray([c \in DOMAIN cols |->
                                     SomaGrupo(cols[c], Year, anos[i],
                                               0, Tam(Year) - 1)])]]))

\* column.cumsum() of a table's column, given as a sequence
Cumsum(col) == [i \in 1..Len(col) |-> SomaEntre(col, 1, i)]


\* the daily columns of the report: the Year of each date and the three
\* daily totals in t CO2eq (lines 1819-1838, 1852-1863)
TabelasDiarias(prm, D, inicio) ==
    Seja(<<SerieAterro(prm, D), SerieVermi(prm, D), SerieCompostagem(prm, D)>>,
         LAMBDA s :
           [Year |-> ColunaYear(inicio, D),
            Total_Aterro_tCO2eq_dia |->
                SomarArrays(ParaTCO2eq(s[1].CH4, GWP_CH4_20),
                            ParaTCO2eq(s[1].N2O, GWP_N2O_20)),
            Total_Vermi_tCO2eq_dia |->
                SomarArrays(ParaTCO2eq(s[2].CH4, GWP_CH4_20),
                            ParaTCO2eq(s[2].N2O, GWP_N2O_20)),
            Total_Compost_tCO2eq_dia |->
                SomarArrays(ParaTCO2eq(s[3].CH4, GWP_CH4_20),
                            ParaTCO2eq(s[3].N2O, GWP_N2O_20))])

\* the annual rows built from the yearly sums of baseline and project:
\* 'Emission reductions' is their difference, 'Cumulative reduction' its
\* cumsum
LinhasAnuais(anos, n_dias, baseline, project) ==
    Seja(NdArray([i \in DOMAIN anos |-> baseline[i] - project[i]]),
         LAMBDA reducoes :
           Seja(Cumsum(reducoes),
                LAMBDA acumulado :
                  NdArray([i \in DOMAIN anos |->
                     [Year       |-> anos[i],
                      n_dias     |-> n_dias[i],
                      Baseline   |-> baseline[i],
                      Project    |-> project[i],
                      Reductions |-> reducoes[i],
                      Cumulative |-> acumulado[i]]])))

\* df_anual_revisado, lines 1841-1854
df_anual_revisado(diario) ==
    Seja(GroupbySum(diario.Year, <<diario.Total_Aterro_tCO2eq_dia,
                                   diario.Total_Vermi_tCO2eq_dia>>),
         LAMBDA g : LinhasAnuais([i \in DOMAIN g |-> g[i].Year],
                                 [i \in DOMAIN g |-> g[i].n_dias],
                                 [i \in DOMAIN g |-> g[i].soma[1]],
                                 [i \in DOMAIN g |-> g[i].soma[2]]))

\* mutant: the rows matched by position, one year late
MergeDoAnoAnterior(left, right) ==
    [i \in DOMAIN left |-> right[IF i > 1 THEN i - 1 ELSE i].Baseline]

\* pd.merge(left, right[['Year', 'Baseline']], on='Year', how='left'): the
\* baseline of the row of right with the key of row i of left (both tables
\* group the same dates, so the key is there, once)
MergeLeft(left, right) ==
    [i \in DOMAIN left |->
        right[CHOOSE j \in DOMAIN right : right[j].Year = left[i].Year].Baseline]

\* df_comp_anual_revisado, lines 1864-1880
df_comp_anual_revisado(diario, anual) ==
    Seja(GroupbySum(diario.Year, <<diario.Total_Compost_tCO2eq_dia>>),
         LAMBDA g : LinhasAnuais([i \in DOMAIN g |-> g[i].Year],
                                 [i \in DOMAIN g |-> g[i].n_dias],
                                 MergeLeft(g, anual),
                                 [i \in DOMAIN g |-> g[i].soma[1]]))

\* the column df['Reducao_tCO2eq_acum']: the cumsum of the daily baseline
\* minus the cumsum of the daily project emissions (lines 1836-1838)
Reducao_tCO2eq_acum(diario) ==
    [d \in DOMAIN diario.Year |->
        SomaEntre(diario.Total_Aterro_tCO2eq_dia, 0, d)
        - SomaEntre(diario.Total_Vermi_tCO2eq_dia, 0, d)]

\* the report of the block `if st.session_state.get('run_simulation')`
Relatorio(prm, D, inicio) ==
    Seja(TabelasDiarias(prm, D, inicio),
         LAMBDA diario :
           Seja(df_anual_revisado(diario),
                LAMBDA anual :
                  Seja(df_comp_anual_revisado(diario, anual),
                       LAMBDA comp :
                         [df |-> diario,
                          df_anual_revisado |-> anual,
                          df_comp_anual_revisado |-> comp,
                          total_evitado_tese |->
                            Reducao_tCO2eq_acum(diario)[D - 1],
                          total_evitado_unfccc |->
                            comp[Len(comp)].Cumulative])))

\* sidebar values and the clock of a script run that shows the report
InitAnual ==
    /\ residuos_kg_dia \in {Dec(10, 1), Dec(100, 1)}
    /\ umidade \in {Dec(50, 100), Dec(85, 100)}
    /\ massa_exposta_kg \in {Dec(100, 1)}
    /\ h_exposta \in {Dec(8, 1)}
    /\ perfis = [x \in {} |-> 0]
    /\ pc = "modulo"
    /\ SemLaco
    /\ anos_simulacao \in AnosVals
    /\ ano_inicio \in AnoInicioVals
    /\ dias = anos_simulacao * 365
    /\ chamada_aterro = <<>>
    /\ retorno = <<>>
    /\ relatorio = <<>>
    /\ SemMC
    /\ SemSessao

\* the button "Executar Simulação" was pressed: the report is computed
ExecutarSimulacao ==
    /\ pc = "pronto"
    /\ \E r \in {Relatorio(<<umidade, T, DOC>>, dias, ano_inicio)} :
          relatorio' = r
    /\ pc' = "relatorio"
    /\ UNCHANGED <<session_state,
                   residuos_kg_dia, umidade, massa_exposta_kg, h_exposta, perfis,
                   fn, params, dias_simulacao, dia_entrada, dia_compostagem,
                   emissoes_CH4, emissoes_N2O, erro, lote, dias, chamada_aterro,
                   retorno, anos_simulacao, ano_inicio, vars_mc>>

NextAnual == ExecutarModulo \/ ExecutarSimulacao

SpecAnual == InitAnual /\ [][NextAnual]_vars

-----------------------------------------------------------------------------
(* Claims about the annual breakdown (SpecAnual)                           *)

\* the sum of one field over the rows of an annual table
SomaLinhas(tab, campo, n) ==
    SomaEntre([i \in 1..n |-> tab[i][campo]], 1, n)

\* the rows of tab whose Year is the year of day d
GruposDoDia(tab, d) ==
    {i \in DOMAIN tab : tab[i].Year = relatorio.df.Year[d]}

\* the annual table tab counts every simulated day in exactly one group and
\* its reductions add up to total, as does its last cumulative value
FechaComOTotal(tab, total) ==
    /\ \A d \in DOMAIN relatorio.df.Year : Cardinality(GruposDoDia(tab, d)) = 1
    /\ SomaLinhas(tab, "n_dias", Len(tab)) = dias
    /\ SomaLinhas(tab, "Reductions", Len(tab)) = total
    /\ tab[Len(tab)].Cumulative = total

\* C5: in the deterministic report every simulated day is counted in exactly
\* one calendar-year group, so for both comparisons the annual 'Emission
\* reductions' rows add up to, and the last 'Cumulative reduction' equals,
\* the full-horizon total: the sum of the daily baseline minus the sum of
\* the daily project emissions; the two reported totals are these values.
C5_AnosParticionamOsDias ==
    pc = "relatorio" =>
        /\ FechaComOTotal(relatorio.df_anual_revisado,
                          Soma(relatorio.df.Total_Aterro_tCO2eq_dia)
                          - Soma(relatorio.df.Total_Vermi_tCO2eq_dia))
        /\ FechaComOTotal(relatorio.df_comp_anual_revisado,
                          Soma(relatorio.df.Total_Aterro_tCO2eq_dia)
                          - Soma(relatorio.df.Total_Compost_tCO2eq_dia))
        /\ relatorio.total_evitado_tese
             = Soma(relatorio.df.Total_Aterro_tCO2eq_dia)
               - Soma(relatorio.df.Total_Vermi_tCO2eq_dia)
        /\ relatorio.total_evitado_unfccc
             = Soma(relatorio.df.Total_Aterro_tCO2eq_dia)
               - Soma(relatorio.df.Total_Compost_tCO2eq_dia)

\* a report over more than one year whose last year has a reduction that is
\* not zero, in both comparisons
C5_Witness ==
    /\ pc = "relatorio"
    /\ Len(relatorio.df_anual_revisado) > 1
    /\ relatorio.df_anual_revisado[Len(relatorio.df_anual_revisado)].Reductions > 0
    /\ relatorio.df_comp_anual_revisado[Len(relatorio.df_comp_anual_revisado)].Reductions > 0
    /\ relatorio.total_evitado_tese > relatorio.total_evitado_unfccc

\* C6: every year reported in the annual breakdown is a completed calendar
\* year: its group holds all the calendar days of that year.
C6_AnosCompletos ==
    pc = "relatorio" =>
        \A i \in DOMAIN relatorio.df_anual_revisado :
            relatorio.df_anual_revisado[i].n_dias
                = DiasNoAno(relatorio.df_anual_revisado[i].Year)

-----------------------------------------------------------------------------
(* SpecMC: the sampling episodes of a session, src/app.py lines 2139-2258  *)
(* and 1557-1613, over reruns of the script                                *)

MaxSim == 2

MaxSeeds == 2

MaxAmostras == 1

MaxEntropia == 2

MaxDiasMC == 2

\* values of the slider n_simulations and of "Simulações por seed"
NSimVals == 1..MaxSim

\* states a generator created with seed=None starts from (OS entropy)
EntropiaVals == 0..(MaxEntropia - 1)

\* the bounds of problem_tese and of problem_unfccc
BoundsSobol ==
    <<<<Dec(5, 10), Dec(85, 100)>>, <<Dec(25, 1), Dec(45, 1)>>,
      <<Dec(15, 100), Dec(50, 100)>>>>

\* k floats in [0, 1) drawn one after the other from estado
RECURSIVE FracoesN(_, _)
FracoesN(estado, k) ==
    IF k = 0 THEN <<>>
    ELSE <<Fracao(Proximo(estado))>> \o FracoesN(Proximo(estado), k - 1)

\* the rows a base row <<a1, a2, a3, b1, b2, b3>> gives: A, A with one column
\* of B (three rows), B with one column of A (three rows), B, scaled to the
\* bounds
LinhasSobol(base) ==
    LET Escala(j, u) == BoundsSobol[j][1]
                        + Mul(BoundsSobol[j][2] - BoundsSobol[j][1], u)
        A  == [j \in 1..3 |-> Escala(j, base[j])]
        B  == [j \in 1..3 |-> Escala(j, base[j + 3])]
        AB == [k \in 1..3 |-> [A EXCEPT ![k] = B[k]]]
        BA == [k \in 1..3 |-> [B EXCEPT ![k] = A[k]]]
    IN  <<A>> \o AB \o BA \o <<B>>

\* SALib's sample(problem, N): N base rows from a scrambled sequence whose
\* generator is created inside the call with seed=None, so it starts from
\* entropia and never reads the shared state of np.random
RECURSIVE sample(_, _)
sample(entropia, N) ==
    IF N = 0 THEN <<>>
    ELSE LET f == FracoesN(entropia, 6 * N)
         IN  sample(entropia, N - 1) \o LinhasSobol(SubSeq(f, 6 * N - 5, 6 * N))

\* the run configuration an episode's results depend on
Config == <<residuos_kg_dia, umidade, massa_exposta_kg, h_exposta, dias>>

\* params of sample i: [umidade_vals[i], temp_vals[i], doc_vals[i]]
Triplos(p) ==
    [i \in 1..Len(p.umidade_vals) |->
        <<p.umidade_vals[i], p.temp_vals[i], p.doc_vals[i]>>]

ResultadosTese(amostras) ==
    [i \in 1..Len(amostras) |-> executar_simulacao_completa(amostras[i])]

ResultadosUnfccc(amostras) ==
    [i \in 1..Len(amostras) |-> executar_simulacao_unfccc(amostras[i])]

\* the record kept of a sampling episode
Episodio(tipo, seed, n, amostras, resultados) ==
    [tipo |-> tipo, seed |-> seed, n |-> n, config |-> Config,
     amostras |-> amostras \o <<>>, resultados |-> resultados \o <<>>]

\* the history variable keeps the episode it holds or takes the last one
Lembrar == lembrado' \in {lembrado, ultimo}

InitMC ==
    /\ residuos_kg_dia \in {Dec(100, 1)}
    /\ umidade \in {Dec(85, 100)}
    /\ massa_exposta_kg \in {Dec(100, 1)}
    /\ h_exposta \in {Dec(8, 1)}
    /\ perfis = [x \in {} |-> 0]
    /\ pc = "modulo"
    /\ SemLaco
    /\ dias \in 1..MaxDiasMC
    /\ chamada_aterro = <<>>
    /\ retorno = <<>>
    /\ anos_simulacao = 0
    /\ ano_inicio = MaxAnoInicio
    /\ relatorio = <<>>
    /\ rng = 0
    /\ ultimo = <<>>
    /\ lembrado = <<>>
    /\ n_simulations \in NSimVals
    /\ robustez = <<>>
    /\ avaliacoes = <<>>
    /\ SemSessao

\* what no sampling episode changes
ForaDoEpisodio ==
    UNCHANGED <<session_state,
                residuos_kg_dia, umidade, massa_exposta_kg, h_exposta, perfis,
                fn, params, dias_simulacao, dia_entrada, dia_compostagem,
                emissoes_CH4, emissoes_N2O, erro, lote, dias, chamada_aterro,
                retorno, vars_relatorio, n_simulations, avaliacoes>>

\* lines 2139-2153: the Sobol analysis of the thesis proposal
SobolTese ==
    /\ pc = "relatorio"
    /\ rng' = Semear(50)
    /\ \E e \in EntropiaVals : \E am \in {sample(e, MaxAmostras)} :
          ultimo' = Episodio("sobol_tese", 50, MaxAmostras, am,
                             ResultadosTese(am))
    /\ Lembrar
    /\ pc' = "sobol_tese"
    /\ UNCHANGED robustez
    /\ ForaDoEpisodio

\* lines 2173-2187: the Sobol analysis of the UNFCCC scenario
SobolUnfccc ==
    /\ pc = "sobol_tese"
    /\ rng' = Semear(50)
    /\ \E e \in EntropiaVals : \E am \in {sample(e, MaxAmostras)} :
          ultimo' = Episodio("sobol_unfccc", 50, MaxAmostras, am,
                             ResultadosUnfccc(am))
    /\ Lembrar
    /\ pc' = "sobol_unfccc"
    /\ UNCHANGED robustez
    /\ ForaDoEpisodio

\* lines 2208-2223: the Monte Carlo episode of the thesis proposal
MonteCarloTese ==
    /\ pc = "sobol_unfccc"
    /\ \E p \in {gerar_parametros_mc_tese(rng, n_simulations)} :
          /\ rng' = p.estado
          /\ ultimo' = Episodio("mc_tese", 50, n_simulations, Triplos(p),
                                ResultadosTese(Triplos(p)))
    /\ Lembrar
    /\ pc' = "mc_tese"
    /\ UNCHANGED robustez
    /\ ForaDoEpisodio

\* lines 2243-2258: the Monte Carlo episode of the UNFCCC scenario
MonteCarloUnfccc ==
    /\ pc = "mc_tese"
    /\ \E p \in {gerar_parametros_mc_unfccc(rng, n_simulations)} :
          /\ rng' = p.estado
          /\ ultimo' = Episodio("mc_unfccc", 50, n_simulations, Triplos(p),
                                ResultadosUnfccc(Triplos(p)))
    /\ Lembrar
    /\ pc' = "mc_unfccc"
    /\ UNCHANGED robustez
    /\ ForaDoEpisodio

\* np.mean of a list of results
Media(resultados) ==
    DivInt(SomaAte([i \in 0..(Len(resultados) - 1) |-> resultados[i + 1]],
                   Len(resultados)),
           Len(resultados))

\* the button of the robustness analysis was pressed:
\* analise_robustez_multi_seeds(n_seeds, n_sim_per_seed) is entered
IniciarRobustez ==
    /\ pc = "mc_unfccc"
    /\ \E n_seeds \in 1..MaxSeeds : \E n \in NSimVals :
          robustez' = [seeds |-> [i \in 1..n_seeds |-> i] \o <<>>,
                       n_simulations |-> n, i |-> 0,
                       tese |-> <<>>, unfccc |-> <<>>]
    /\ pc' = "robustez"
    /\ UNCHANGED <<rng, ultimo, lembrado>>
    /\ ForaDoEpisodio

\* one pass of `for i, seed in enumerate(seeds)`, lines 1576-1604
IteracaoRobustez ==
    /\ pc = "robustez"
    /\ LET seed == robustez.seeds[robustez.i + 1]
       IN  \E p \in {SortearDaIteracao(rng, seed, robustez.n_simulations)} :
             \E r \in {<<ResultadosTese(Triplos(p)) \o <<>>,
                          ResultadosUnfccc(Triplos(p)) \o <<>> >>} :
               /\ rng' = p.estado
               /\ ultimo' = Episodio("robustez", seed, robustez.n_simulations,
                                     Triplos(p), r)
               /\ robustez' = [robustez EXCEPT
                                 !.i = @ + 1,
                                 !.tese = Append(@, Media(r[1])),
                                 !.unfccc = Append(@, Media(r[2]))]
    /\ Lembrar
    /\ pc' = IF robustez.i + 1 = Len(robustez.seeds) THEN "fim" ELSE "robustez"
    /\ ForaDoEpisodio

\* a widget was touched: the script runs again from its first line with the
\* values the sidebar holds now
Reexecutar ==
    /\ pc \in {"mc_unfccc", "fim"}
    /\ pc' = "modulo"
    /\ n_simulations' \in NSimVals
    /\ relatorio' = <<>>
    /\ robustez' = <<>>
    /\ UNCHANGED <<session_state,
                   residuos_kg_dia, umidade, massa_exposta_kg, h_exposta, perfis,
                   fn, params, dias_simulacao, dia_entrada, dia_compostagem,
                   emissoes_CH4, emissoes_N2O, erro, lote, dias, chamada_aterro,
                   retorno, anos_simulacao, ano_inicio, rng, ultimo, lembrado,
                   avaliacoes>>

NextMC ==
    \/ ExecutarModulo
    \/ ExecutarSimulacao
    \/ SobolTese
    \/ SobolUnfccc
    \/ MonteCarloTese
    \/ MonteCarloUnfccc
    \/ IniciarRobustez
    \/ IteracaoRobustez
    \/ Reexecutar

SpecMC == InitMC /\ [][NextMC]_vars

-----------------------------------------------------------------------------
(* Claims about the sampling episodes (SpecMC)                             *)

\* what identifies an episode: its kind, seed, sample count and the run
\* configuration
Chave(e) == <<e.tipo, e.seed, e.n, e.config>>

EpisodiosMC == {"mc_tese", "mc_unfccc", "robustez"}

\* two episodes are at hand and have the same key
MesmaChave ==
    /\ ultimo # <<>>
    /\ lembrado # <<>>
    /\ Chave(ultimo) = Chave(lembrado)

\* C9: two Monte Carlo episodes with the same seed, the same sample count
\* and the same run configuration draw identical (moisture, temperature,
\* DOC) triples in the same order and produce identical result arrays, for
\* the thesis episode, the UNFCCC episode and each seed iteration of
\* analise_robustez_multi_seeds.
C9_MonteCarloReprodutivel ==
    (MesmaChave /\ ultimo.tipo \in EpisodiosMC) =>
        /\ ultimo.amostras = lembrado.amostras
        /\ ultimo.resultados = lembrado.resultados

\* a robustness iteration run again with its seed and count, in a script run
\* whose Monte Carlo sample count differs from the first time
C9_Witness ==
    /\ MesmaChave
    /\ ultimo.tipo = "robustez"
    /\ ultimo.seed = MaxSeeds
    /\ ultimo.n = MaxSim
    /\ n_simulations = 1
    /\ pc = "fim"
    /\ Len(ultimo.amostras) = MaxSim
    /\ ultimo.amostras[1] # ultimo.amostras[MaxSim]

\* C10: every sampling episode (thesis Monte Carlo, UNFCCC Monte Carlo, each
\* Sobol design, each seed iteration of the robustness analysis) draws the
\* same samples after any sequence of earlier episodes: two episodes of one
\* kind, seed and sample count have identical samples.
C10_AmostrasIndependemDaHistoria ==
    MesmaChave => ultimo.amostras = lembrado.amostras

-----------------------------------------------------------------------------
(* SpecLotes: the evaluations of a Sobol design or of a Monte Carlo loop   *)
(* one at a time, src/app.py lines 2151-2153, 2185-2187, 2218-2225 and     *)
(* 2254-2260                                                               *)

MaxWorkers == 2

TiposSobol == {"sobol_tese", "sobol_unfccc"}

TiposTese == {"sobol_tese", "mc_tese"}

\* the function a batch applies to each of its samples
Avaliar(tipo, parametros) ==
    IF tipo \in TiposTese
        THEN executar_simulacao_completa(parametros)
        ELSE executar_simulacao_unfccc(parametros)

\* a batch before its first evaluation: n_jobs evaluations at most run at a
\* time, proxima is the next sample to hand out, valores[i] the result
\* sample i's evaluation came back with, fora_de_ordem whether an
\* evaluation came back while one handed out before it was still running
Lote(tipo, param_values, n_jobs) ==
    [tipo |-> tipo, param_values |-> param_values \o <<>>, n_jobs |-> n_jobs,
     proxima |-> 1, em_curso |-> {}, fora_de_ordem |-> FALSE,
     valores |-> [i \in {} |-> 0], falha |-> 0, coletado |-> FALSE,
     Y |-> <<>>]

\* a script run with the horizon MaxDiasMC and MaxSim Monte Carlo samples
InitLotes ==
    /\ InitMC
    /\ dias = MaxDiasMC
    /\ n_simulations = MaxSim

\* line 2151: param_values_tese = sample(problem_tese, n_samples), and the
\* call of Parallel(n_jobs=-1) of line 2152 with as many workers as the
\* machine has
IniciarSobolTese ==
    /\ pc = "relatorio"
    /\ rng' = Semear(50)
    /\ \E e \in EntropiaVals : \E w \in 1..MaxWorkers :
          avaliacoes' = Lote("sobol_tese", sample(e, MaxAmostras), w)
    /\ pc' = "avaliando"
    /\ UNCHANGED <<session_state,
                   residuos_kg_dia, umidade, massa_exposta_kg, h_exposta,
                   perfis, fn, params, dias_simulacao, dia_entrada,
                   dia_compostagem, emissoes_CH4, emissoes_N2O, erro, lote,
                   dias, chamada_aterro, retorno, vars_relatorio, ultimo,
                   lembrado, n_simulations, robustez>>

\* lines 2185-2186
IniciarSobolUnfccc ==
    /\ pc = "sobol_tese"
    /\ rng' = Semear(50)
    /\ \E e \in EntropiaVals : \E w \in 1..MaxWorkers :
          avaliacoes' = Lote("sobol_unfccc", sample(e, MaxAmostras), w)
    /\ pc' = "avaliando"
    /\ UNCHANGED <<session_state,
                   residuos_kg_dia, umidade, massa_exposta_kg, h_exposta,
                   perfis, fn, params, dias_simulacao, dia_entrada,
                   dia_compostagem, emissoes_CH4, emissoes_N2O, erro, lote,
                   dias, chamada_aterro, retorno, vars_relatorio, ultimo,
                   lembrado, n_simulations, robustez>>

\* lines 2208-2218: the three arrays are drawn, then the loop runs in the
\* script's own thread
IniciarMCTese ==
    /\ pc = "sobol_unfccc"
    /\ \E p \in {gerar_parametros_mc_tese(rng, n_simulations)} :
          /\ rng' = p.estado
          /\ avaliacoes' = Lote("mc_tese", Triplos(p), 1)
    /\ pc' = "avaliando"
    /\ UNCHANGED <<session_state,
                   residuos_kg_dia, umidade, massa_exposta_kg, h_exposta,
                   perfis, fn, params, dias_simulacao, dia_entrada,
                   dia_compostagem, emissoes_CH4, emissoes_N2O, erro, lote,
                   dias, chamada_aterro, retorno, vars_relatorio, ultimo,
                   lembrado, n_simulations, robustez>>

\* lines 2243-2254
IniciarMCUnfccc ==
    /\ pc = "mc_tese"
    /\ \E p \in {gerar_parametros_mc_unfccc(rng, n_simulations)} :
          /\ rng' = p.estado
          /\ avaliacoes' = Lote("mc_unfccc", Triplos(p), 1)
    /\ pc' = "avaliando"
    /\ UNCHANGED <<session_state,
                   residuos_kg_dia, umidade, massa_exposta_kg, h_exposta,
                   perfis, fn, params, dias_simulacao, dia_entrada,
                   dia_compostagem, emissoes_CH4, emissoes_N2O, erro, lote,
                   dias, chamada_aterro, retorno, vars_relatorio, ultimo,
                   lembrado, n_simulations, robustez>>

\* what stays as it is while a batch runs
DuranteOLote ==
    UNCHANGED <<session_state,
                residuos_kg_dia, umidade, massa_exposta_kg, h_exposta, perfis,
                fn, params, dias_simulacao, dia_entrada, dia_compostagem,
                emissoes_CH4, emissoes_N2O, erro, lote, dias, chamada_aterro,
                retorno, vars_relatorio, rng, lembrado, n_simulations,
                robustez>>

\* the next sample of the generator (or of range(n_simulations)) is handed
\* out, in input order, when an evaluation slot is free
Despachar ==
    /\ pc = "avaliando"
    /\ avaliacoes.proxima <= Len(avaliacoes.param_values)
    /\ Cardinality(avaliacoes.em_curso) < avaliacoes.n_jobs
    /\ avaliacoes' = [avaliacoes EXCEPT !.em_curso = @ \cup {avaliacoes.proxima},
                                        !.proxima = @ + 1]
    /\ UNCHANGED <<pc, ultimo>>
    /\ DuranteOLote

\* mutant: the value is kept in the next free place, in the order the
\* evaluations come back
GuardadoNaOrdemDeChegada(valores, i, v) ==
    valores @@ ((Cardinality(DOMAIN valores) + 1) :> v)

\* the value sample i's evaluation came back with is kept under i
Guardado(valores, i, v) == valores @@ (i :> v)

\* one of the evaluations under way returns
Concluir ==
    /\ pc = "avaliando"
    /\ \E i \in avaliacoes.em_curso :
          \E v \in {Avaliar(avaliacoes.tipo, avaliacoes.param_values[i])} :
             avaliacoes' =
                 [avaliacoes EXCEPT
                    !.em_curso = @ \ {i},
                    !.fora_de_ordem = @ \/ \E j \in avaliacoes.em_curso : j < i,
                    !.valores = Guardado(@, i, v)]
    /\ UNCHANGED <<pc, ultimo>>
    /\ DuranteOLote

\* a batch whose sample i was lost, and where the script goes from there:
\* a default value stands in for the sample and the batch goes on
AposFalhaComDefault(l, i) ==
    [lote |-> [l EXCEPT !.falha = i, !.em_curso = @ \ {i},
                        !.valores = @ @@ (i :> 0)],
     pc |-> "avaliando"]

\* a batch whose sample i raised, and where the script goes from there:
\* Parallel raises the error in the caller, the loop has no try around the
\* call, so the script stops with the exception
AposFalha(l, i) ==
    [lote |-> [l EXCEPT !.falha = i, !.em_curso = @ \ {i}],
     pc |-> "excecao"]

\* one of the evaluations under way raises, or its worker dies
Falhar ==
    /\ pc = "avaliando"
    /\ \E i \in avaliacoes.em_curso :
          \E r \in {AposFalha(avaliacoes, i)} :
             /\ avaliacoes' = r.lote
             /\ pc' = r.pc
    /\ UNCHANGED ultimo
    /\ DuranteOLote

\* the list a batch hands back: Parallel returns the results in the order
\* of its input, the loop appends them in the order of range(n_simulations)
Coletados(l) ==
    [i \in 1..Len(l.param_values) |-> l.valores[i]]

\* every sample is back: the list is made an array and passed on (lines
\* 2153, 2187, 2223-2225, 2258-2260)
Coletar ==
    /\ pc = "avaliando"
    /\ DOMAIN avaliacoes.valores = 1..Len(avaliacoes.param_values)
    /\ avaliacoes' = [avaliacoes EXCEPT !.coletado = TRUE,
                                        !.Y = Coletados(avaliacoes)]
    /\ pc' = avaliacoes.tipo
    /\ UNCHANGED ultimo
    /\ DuranteOLote

NextLotes ==
    \/ ExecutarModulo
    \/ ExecutarSimulacao
    \/ IniciarSobolTese
    \/ IniciarSobolUnfccc
    \/ IniciarMCTese
    \/ IniciarMCUnfccc
    \/ Despachar
    \/ Concluir
    \/ Falhar
    \/ Coletar

SpecLotes == InitLotes /\ [][NextLotes]_vars

-----------------------------------------------------------------------------
(* Claims about the batches (SpecLotes)                                    *)

\* C11: in the Sobol driver, whatever the interleaving and completion order
\* of the parallel evaluations, the collected array has exactly one entry
\* per design point, entry i is the evaluator's value at param_values[i],
\* and it is with that array that the script goes on to analyze.
C11_ResultadosNaOrdemDoDesenho ==
    (avaliacoes # <<>> /\ avaliacoes.tipo \in TiposSobol
        /\ avaliacoes.coletado) =>
        /\ Len(avaliacoes.Y) = Len(avaliacoes.param_values)
        /\ \A i \in 1..Len(avaliacoes.param_values) :
              avaliacoes.Y[i]
                  = Avaliar(avaliacoes.tipo, avaliacoes.param_values[i])
        /\ pc = avaliacoes.tipo

\* a collected Sobol batch in which an evaluation came back before one
\* handed out earlier, its first two design points having different values
C11_Witness ==
    /\ avaliacoes # <<>>
    /\ avaliacoes.tipo = "sobol_unfccc"
    /\ avaliacoes.coletado
    /\ pc = "sobol_unfccc"
    /\ avaliacoes.fora_de_ordem
    /\ avaliacoes.Y[1] # avaliacoes.Y[2]

\* C12: when the evaluation of one sample raises inside a Monte Carlo loop
\* or a Sobol batch, the whole batch fails with that error: the script stops
\* and no result array is made of the batch; an array that is made has one
\* value per sample, none left out and none a default.
C12_FalhaDerrubaOLote ==
    avaliacoes # <<>> =>
        /\ avaliacoes.falha # 0 =>
              /\ pc = "excecao"
              /\ ~avaliacoes.coletado
              /\ avaliacoes.Y = <<>>
              /\ avaliacoes.falha \notin DOMAIN avaliacoes.valores
        /\ avaliacoes.coletado =>
              /\ avaliacoes.falha = 0
              /\ DOMAIN avaliacoes.valores = 1..Len(avaliacoes.param_values)
              /\ DOMAIN avaliacoes.Y = 1..Len(avaliacoes.param_values)

\* the second sample of a Monte Carlo loop raised after the first had
\* returned its value
C12_Witness ==
    /\ avaliacoes # <<>>
    /\ avaliacoes.tipo = "mc_tese"
    /\ avaliacoes.falha = 2
    /\ DOMAIN avaliacoes.valores = {1}
    /\ pc = "excecao"

-----------------------------------------------------------------------------
(* SpecCalc: one call of a pathway calculator or of a scalar evaluator,    *)
(* src/app.py lines 580-691, over horizons, parameter triples and sidebar  *)
(* values                                                                  *)

MaxDiasCalc == 6

\* horizon lengths of a call: negative, empty, one day, and longer than the
\* 5-day N2O kernel of the landfill
DiasCalc == {-MaxDiasCalc, -1, 0, 1, MaxDiasCalc}

\* the ends of the sliders of lines 357-372
SidebarCalc ==
    /\ residuos_kg_dia \in {Dec(10, 1), Dec(1000, 1)}
    /\ umidade \in {DivInt(Dec(85, 1), 100)}
    /\ massa_exposta_kg \in {Dec(50, 1), Dec(200, 1)}
    /\ h_exposta \in {Dec(4, 1), Dec(24, 1)}

\* triples inside the physical domain: moisture and DOC in (0, 1),
\* temperature >= 0
ParamsNoDominio ==
    {Dec(1, 100), Dec(55, 100), Dec(99, 100)}
        \X {Dec(0, 1), Dec(25, 1), Dec(45, 1)}
        \X {Dec(1, 100), Dec(50, 100), Dec(99, 100)}

\* triples with the moisture or the DOC outside it
ParamsForaDoDominio ==
    ({-Dec(20, 100), Dec(0, 1), Dec(1, 1), Dec(120, 100)}
        \X {Dec(25, 1)} \X {Dec(15, 100)})
    \cup ({Dec(85, 100)} \X {Dec(25, 1)}
        \X {-Dec(10, 100), Dec(1, 1), Dec(150, 100)})

NoDominio(prm) ==
    /\ prm[1] > 0 /\ prm[1] < Dec(1, 1)
    /\ prm[2] >= 0
    /\ prm[3] > 0 /\ prm[3] < Dec(1, 1)

CalculadorasDeSerie == Calculadoras \cup {"aterro"}

Avaliadores == {"completa", "unfccc"}

\* argument tuples of a call of f
ArgumentosCalc(f) ==
    IF f = "pre_descarte" THEN {<<21>>, <<10>>, <<1>>, <<5>>}
    ELSE ParamsNoDominio \cup ParamsForaDoDominio

\* calculator f called with prm and dias_simulacao = D
Calcular(f, prm, D) ==
    IF f = "pre_descarte" THEN calcular_emissoes_pre_descarte(prm[1], D)
    ELSE IF f = "aterro" THEN calcular_emissoes_aterro(prm, D)
    ELSE IF f = "vermi" THEN calcular_emissoes_vermi(prm, D)
    ELSE calcular_emissoes_compostagem(prm, D)

InitCalc ==
    /\ SidebarCalc
    /\ perfis = [x \in {} |-> 0]
    /\ pc = "modulo"
    /\ SemLaco
    /\ dias \in {1, MaxDiasCalc}
    /\ chamada_aterro = <<>>
    /\ retorno = <<>>
    /\ SemRelatorio
    /\ SemMC
    /\ SemSessao

\* what a call of a calculator or of an evaluator does not assign
ForaDaChamada ==
    UNCHANGED <<session_state,
                residuos_kg_dia, umidade, massa_exposta_kg, h_exposta, perfis,
                dia_entrada, dia_compostagem, emissoes_CH4, emissoes_N2O, lote,
                dias, chamada_aterro, vars_relatorio, vars_mc>>

\* a calculator is called and returns its two series, or raises
ChamarCalculadora ==
    /\ pc = "pronto"
    /\ \E f \in CalculadorasDeSerie : \E prm \in ArgumentosCalc(f) :
         \E D \in DiasCalc : \E r \in {Calcular(f, prm, D)} :
            /\ fn' = f
            /\ params' = prm
            /\ dias_simulacao' = D
            /\ erro' = r.erro
            /\ retorno' = IF r.erro # "" THEN <<>>
                          ELSE [CH4 |-> r.CH4, N2O |-> r.N2O]
            /\ pc' = IF r.erro # "" THEN "excecao" ELSE "retornou"
    /\ ForaDaChamada

\* an evaluator is called and returns its scalar
ChamarAvaliador ==
    /\ pc = "pronto"
    /\ \E f \in Avaliadores : \E prm \in ArgumentosCalc(f) :
         \E v \in {IF f = "completa" THEN executar_simulacao_completa(prm)
                   ELSE executar_simulacao_unfccc(prm)} :
            /\ fn' = f
            /\ params' = prm
            /\ retorno' = [valor |-> v]
    /\ dias_simulacao' = dias
    /\ erro' = ""
    /\ pc' = "retornou"
    /\ ForaDaChamada

NextCalc ==
    \/ ExecutarModulo
    \/ ChamarCalculadora
    \/ ChamarAvaliador

SpecCalc == InitCalc /\ [][NextCalc]_vars

-----------------------------------------------------------------------------
(* Claims about single calls (SpecCalc)                                    *)

\* C14: for every horizon length D >= 0 each of the four pathway
\* calculators returns a CH4 series and an N2O series of exactly length D;
\* with D = 0 all four return empty series and none raises.
C14_SeriesDeComprimentoD ==
    (pc \in {"retornou", "excecao"} /\ fn \in CalculadorasDeSerie
        /\ dias_simulacao >= 0) =>
        /\ pc = "retornou"
        /\ erro = ""
        /\ DOMAIN retorno.CH4 = 0..(dias_simulacao - 1)
        /\ DOMAIN retorno.N2O = 0..(dias_simulacao - 1)

\* the landfill calculator called with a horizon of zero days
C14_Witness ==
    /\ pc = "retornou"
    /\ fn = "aterro"
    /\ dias_simulacao = 0
    /\ retorno.CH4 = <<>>
    /\ retorno.N2O = <<>>

C18_SeriesNaoNegativas ==
    (pc = "retornou" /\ fn \in CalculadorasDeSerie
        /\ (fn = "pre_descarte" \/ NoDominio(params))) =>
        \A d \in 0..(dias_simulacao - 1) :
            /\ retorno.CH4[d] >= 0
            /\ retorno.N2O[d] >= 0

\* the vermicompost calculator called with the wettest waste of the domain
\* over the longest horizon, every day's CH4 being positive
C18_Witness ==
    /\ pc = "retornou"
    /\ fn = "vermi"
    /\ NoDominio(params)
    /\ params[1] = Dec(99, 100)
    /\ dias_simulacao = MaxDiasCalc
    /\ \A d \in 0..(dias_simulacao - 1) : retorno.CH4[d] > 0

\* a triple with its moisture and its DOC brought to the nearest end of
\* [0, 1]
Limitar(prm) ==
    <<Clip(prm[1], Dec(0, 1), Dec(1, 1)), prm[2],
      Clip(prm[3], Dec(0, 1), Dec(1, 1))>>

\* C17: when the moisture or the DOC of a triple lies outside the physical
\* domain, executar_simulacao_completa and executar_simulacao_unfccc either
\* use it clamped to the nearest valid boundary or reject the sample with an
\* error; they never compute a result from the value as given.
C17_LimitaOuRejeita ==
    (pc \in {"retornou", "excecao"} /\ fn \in Avaliadores
        /\ ~NoDominio(params)) =>
        \/ pc = "excecao" /\ erro # ""
        \/ retorno.valor
             = (IF fn = "completa"
                    THEN executar_simulacao_completa(Limitar(params))
                    ELSE executar_simulacao_unfccc(Limitar(params)))

-----------------------------------------------------------------------------
(* SpecPerfis: the construction of the profile tables from their literals, *)
(* src/app.py lines 473-559, and the Sobol drivers run on what was built,  *)
(* lines 2139-2193                                                         *)

\* the four tables made by np.array([...]) followed by `/= .sum()`
PerfisArray ==
    {"PERFIL_CH4_VERMI", "PERFIL_N2O_VERMI", "PERFIL_CH4_THERMO",
     "PERFIL_N2O_THERMO"}

\* a literal of the same length with every weight 0
LiteralNulo(lit) == [i \in 1..Len(lit) |-> 0]

\* the literal of the source or the all-zero one
Literais(lit) == {lit, LiteralNulo(lit)}

\* an entry n/0: the float 0/0, which np.seterr(divide='ignore',
\* invalid='ignore') of line 24 lets through as NaN without a warning
EhNaN(x) == x[2] = 0

PerfilComNaN(p) == \E i \in DOMAIN p : EhNaN(p[i])

InitPerfis ==
    /\ Sidebar
    /\ perfis = [x \in {} |-> 0]
    /\ pc = "modulo"
    /\ SemLaco
    /\ dias \in 1..MaxDiasMC
    /\ chamada_aterro = <<>>
    /\ retorno = <<>>
    /\ SemRelatorio
    /\ SemMC
    /\ SemSessao

ForaDosPerfis ==
    UNCHANGED <<session_state,
                residuos_kg_dia, umidade, massa_exposta_kg, h_exposta, fn,
                params, dias_simulacao, dia_entrada, dia_compostagem,
                emissoes_CH4, emissoes_N2O, erro, lote, dias, chamada_aterro,
                retorno, vars_relatorio, ultimo, lembrado, n_simulations,
                robustez, avaliacoes>>

\* the assignments PERFIL_... = np.array([...]) and the two dict literals
AtribuirLiterais ==
    /\ pc = "modulo"
    /\ \E l1 \in Literais(LiteralCH4Vermi) : \E l2 \in Literais(LiteralN2OVermi) :
       \E l3 \in Literais(LiteralCH4Thermo) : \E l4 \in Literais(LiteralN2OThermo) :
          perfis' = [PERFIL_CH4_VERMI        |-> NpArray(l1),
                     PERFIL_N2O_VERMI        |-> NpArray(l2),
                     PERFIL_N2O_PRE_DESCARTE |-> DictPreDescarte,
                     PERFIL_N2O              |-> DictN2O,
                     PERFIL_CH4_THERMO       |-> NpArray(l3),
                     PERFIL_N2O_THERMO       |-> NpArray(l4)]
    /\ pc' = "literais"
    /\ UNCHANGED rng
    /\ ForaDosPerfis

\* the four statements PERFIL_... /= PERFIL_....sum(): no check of the sum,
\* no exception
NormalizarPerfis ==
    /\ pc = "literais"
    /\ perfis' = [nome \in DOMAIN perfis |->
                    IF nome \in PerfisArray THEN Normalizar(perfis[nome])
                    ELSE perfis[nome]]
    /\ rng' = Semear(50)
    /\ pc' = "pronto"
    /\ ForaDosPerfis

\* a float that is not finite
NaN == [finito |-> FALSE, valor |-> 0]

Finito(v) == [finito |-> TRUE, valor |-> v]

\* the tables the loop of the project calculator of a batch reads
PerfisDoProjeto(tipo) ==
    IF tipo \in TiposTese THEN {"PERFIL_CH4_VERMI", "PERFIL_N2O_VERMI"}
    ELSE {"PERFIL_CH4_THERMO", "PERFIL_N2O_THERMO"}

\* the evaluator's value as a float: with a NaN weight in a table of its
\* project calculator every `+=` of the loop stores NaN, the sum of the
\* series is NaN and so is the difference returned
AvaliarFloat(tipo, parametros) ==
    IF dias >= 1 /\ \E nome \in PerfisDoProjeto(tipo) : PerfilComNaN(perfis[nome])
        THEN NaN
        ELSE Finito(Avaliar(tipo, parametros))

\* sample, Parallel and analyze of a Sobol driver: the list of results is
\* made an array and analysed as it is
AnalisarSobol(tipo, param_values) ==
    [tipo |-> tipo, amostras |-> param_values \o <<>>,
     resultados |-> [i \in 1..Len(param_values) |->
                       AvaliarFloat(tipo, param_values[i])],
     Si |-> "analyze"]

\* lines 2139-2159 run on the tables as built
AnaliseSobolTese ==
    /\ pc = "pronto"
    /\ \E e \in EntropiaVals :
          ultimo' = AnalisarSobol("sobol_tese", sample(e, MaxAmostras))
    /\ pc' = "sobol_tese"
    /\ UNCHANGED <<session_state,
                   residuos_kg_dia, umidade, massa_exposta_kg, h_exposta,
                   perfis, fn, params, dias_simulacao, dia_entrada,
                   dia_compostagem, emissoes_CH4, emissoes_N2O, erro, lote,
                   dias, chamada_aterro, retorno, vars_relatorio, rng,
                   lembrado, n_simulations, robustez, avaliacoes>>

\* lines 2173-2193
AnaliseSobolUnfccc ==
    /\ pc = "sobol_tese"
    /\ \E e \in EntropiaVals :
          ultimo' = AnalisarSobol("sobol_unfccc", sample(e, MaxAmostras))
    /\ pc' = "sobol_unfccc"
    /\ UNCHANGED <<session_state,
                   residuos_kg_dia, umidade, massa_exposta_kg, h_exposta,
                   perfis, fn, params, dias_simulacao, dia_entrada,
                   dia_compostagem, emissoes_CH4, emissoes_N2O, erro, lote,
                   dias, chamada_aterro, retorno, vars_relatorio, rng,
                   lembrado, n_simulations, robustez, avaliacoes>>

NextPerfis ==
    \/ AtribuirLiterais
    \/ NormalizarPerfis
    \/ AnaliseSobolTese
    \/ AnaliseSobolUnfccc

SpecPerfis == InitPerfis /\ [][NextPerfis]_vars

-----------------------------------------------------------------------------
(* Claims about degenerate profiles (SpecPerfis)                           *)

\* C16: when the raw literal weights of an emission profile are all zero,
\* profile construction fails with a ConfigurationError before any
\* calculator or sampling runs: no table with NaN entries is ever produced,
\* so none is there when the calculators and the drivers can run.
C16_PerfilNuloFalhaCedo ==
    \A nome \in PerfisArray \cap DOMAIN perfis : ~PerfilComNaN(perfis[nome])

-----------------------------------------------------------------------------
(* SpecAnos: the report of one configuration computed in script runs of    *)
(* different years, src/app.py lines 521-524 and 1814-1891                 *)

InitAnos ==
    /\ residuos_kg_dia \in {Dec(100, 1)}
    /\ umidade \in {Dec(50, 100), Dec(85, 100)}
    /\ massa_exposta_kg \in {Dec(100, 1)}
    /\ h_exposta \in {Dec(8, 1)}
    /\ perfis = [x \in {} |-> 0]
    /\ pc = "modulo"
    /\ SemLaco
    /\ anos_simulacao \in AnosVals
    /\ ano_inicio \in AnoInicioVals
    /\ dias = anos_simulacao * 365
    /\ chamada_aterro = <<>>
    /\ retorno = <<>>
    /\ relatorio = <<>>
    /\ SemMC
    /\ SemSessao

\* the script runs again in a later year with the sidebar as it is:
\* ano_inicio = datetime.now().year has a new value (the report shown so
\* far is kept for comparison)
VirarAno ==
    /\ pc = "relatorio"
    /\ \E ano \in AnoInicioVals :
          /\ ano > ano_inicio
          /\ ano_inicio' = ano
    /\ lembrado' = [ano_inicio |-> ano_inicio, relatorio |-> relatorio]
    /\ relatorio' = <<>>
    /\ pc' = "modulo"
    /\ UNCHANGED <<session_state,
                   residuos_kg_dia, umidade, massa_exposta_kg, h_exposta, perfis,
                   fn, params, dias_simulacao, dia_entrada, dia_compostagem,
                   emissoes_CH4, emissoes_N2O, erro, lote, dias, chamada_aterro,
                   retorno, anos_simulacao, rng, ultimo, n_simulations,
                   robustez, avaliacoes>>

NextAnos == ExecutarModulo \/ ExecutarSimulacao \/ VirarAno

SpecAnos == InitAnos /\ [][NextAnos]_vars

-----------------------------------------------------------------------------
(* Claims about the start year (SpecAnos)                                  *)

\* the three daily series and the two totals of a report
SeriesETotais(r) ==
    <<r.df.Total_Aterro_tCO2eq_dia, r.df.Total_Vermi_tCO2eq_dia,
      r.df.Total_Compost_tCO2eq_dia, r.total_evitado_tese,
      r.total_evitado_unfccc>>

\* an annual table without its year labels
SemRotulos(tab) ==
    [i \in DOMAIN tab |-> [n_dias |-> tab[i].n_dias, Baseline |-> tab[i].Baseline,
                           Project |-> tab[i].Project,
                           Reductions |-> tab[i].Reductions,
                           Cumulative |-> tab[i].Cumulative]]

\* the labels of an annual table are the years from inicio on, one per row
RotulosDesde(tab, inicio) ==
    \A i \in DOMAIN tab : tab[i].Year = inicio + i - 1

\* C19 as stated: for fixed parameters and horizon the daily series and the
\* two full-horizon totals are identical for every start year, and the
\* start year changes only the year labels of the annual rows.
C19_SoOsRotulosMudam ==
    (pc = "relatorio" /\ lembrado # <<>>) =>
        /\ SeriesETotais(relatorio) = SeriesETotais(lembrado.relatorio)
        /\ SemRotulos(relatorio.df_anual_revisado)
             = SemRotulos(lembrado.relatorio.df_anual_revisado)
        /\ SemRotulos(relatorio.df_comp_anual_revisado)
             = SemRotulos(lembrado.relatorio.df_comp_anual_revisado)

\* C19 as amended: for fixed parameters and horizon the daily series and
\* the two full-horizon totals are identical for every start year; the
\* annual rows are labelled with the years from the start year on, and how
\* the days fall into the rows (so the rows' sums) may change with it.
C19_SeriesETotaisIguais ==
    (pc = "relatorio" /\ lembrado # <<>>) =>
        /\ SeriesETotais(relatorio) = SeriesETotais(lembrado.relatorio)
        /\ RotulosDesde(relatorio.df_anual_revisado, ano_inicio)
        /\ RotulosDesde(relatorio.df_comp_anual_revisado, ano_inicio)
        /\ RotulosDesde(lembrado.relatorio.df_anual_revisado,
                        lembrado.ano_inicio)
        /\ Len(relatorio.df_anual_revisado)
             = Len(lembrado.relatorio.df_anual_revisado)

\* the report of a leap start year and the report of the year after it:
\* the totals are those of the first report, the first annual row is not
C19_Witness ==
    /\ pc = "relatorio"
    /\ lembrado # <<>>
    /\ EhBissexto(lembrado.ano_inicio)
    /\ ano_inicio = lembrado.ano_inicio + 1
    /\ relatorio.total_evitado_tese > 0
    /\ relatorio.df_anual_revisado[1].Reductions
         # lembrado.relatorio.df_anual_revisado[1].Reductions

-----------------------------------------------------------------------------
(* SpecChamadas: calls of the calculators and of the evaluators one after  *)
(* the other in one script run, src/app.py lines 580-691                   *)

\* argument tuples of a call of f in a sequence of calls
ArgumentosEmSequencia(f) ==
    IF f = "pre_descarte" THEN {<<21>>, <<10>>}
    ELSE {<<umidade, T, DOC>>, <<Dec(50, 100), Dec(45, 1), Dec(50, 100)>>}

\* the horizon of a call of f: the evaluators pass the module's dias
DiasEmSequencia(f) ==
    IF f \in Avaliadores THEN {dias} ELSE {1, MaxDiasCalc}

\* what a call of f returns
Retornado(f, prm, D) ==
    IF f = "completa" THEN [valor |-> executar_simulacao_completa(prm)]
    ELSE IF f = "unfccc" THEN [valor |-> executar_simulacao_unfccc(prm)]
    ELSE Seja(Calcular(f, prm, D), LAMBDA r : [CH4 |-> r.CH4, N2O |-> r.N2O])

\* the first call of the run, which ran alone, and whether a different call
\* was made after it
PrimeiraChamada(f, prm, D, r) ==
    IF lembrado = <<>>
        THEN [fn |-> f, params |-> prm, dias_simulacao |-> D, retorno |-> r,
              houve_outra |-> FALSE]
    ELSE IF <<f, prm, D>> = <<lembrado.fn, lembrado.params,
                              lembrado.dias_simulacao>>
        THEN lembrado
    ELSE [lembrado EXCEPT !.houve_outra = TRUE]

\* a calculator or an evaluator is called, first or after other calls, and
\* returns
ChamarEmSequencia ==
    /\ pc \in {"pronto", "retornou"}
    /\ \E f \in CalculadorasDeSerie \cup Avaliadores :
         \E prm \in ArgumentosEmSequencia(f) : \E D \in DiasEmSequencia(f) :
            \E r \in {Retornado(f, prm, D)} :
               /\ fn' = f
               /\ params' = prm
               /\ dias_simulacao' = D
               /\ retorno' = r
               /\ lembrado' = PrimeiraChamada(f, prm, D, r)
    /\ erro' = ""
    /\ pc' = "retornou"
    /\ UNCHANGED <<session_state,
                   residuos_kg_dia, umidade, massa_exposta_kg, h_exposta, perfis,
                   dia_entrada, dia_compostagem, emissoes_CH4, emissoes_N2O, lote,
                   dias, chamada_aterro, vars_relatorio, rng, ultimo,
                   n_simulations, robustez, avaliacoes>>

NextChamadas == ExecutarModulo \/ ChamarEmSequencia

SpecChamadas == InitPerfis /\ [][NextChamadas]_vars

-----------------------------------------------------------------------------
(* Claims about sequences of calls (SpecChamadas)                          *)

-----------------------------------------------------------------------------
(* analise_financeira_risco (lines 1174-1248)                              *)

MaxResultados == 4

ComprimentoLongo == 45

\* lengths of the Monte Carlo result arrays that are tried
ComprimentosMC == (1..MaxResultados) \cup {ComprimentoLongo}

\* results in tCO2eq that are tried (losses, nothing, gains)
ValoresMC == {-Dec(3, 100), 0, Dec(4, 100)}

\* a long array whose values run through -0.02 .. 0.0175 with stride m
Padrao(n, m, c) == [i \in 1..n |-> Dec(((i * m + c) % 16) - 8, 400)]

\* the result arrays of n simulations that are tried
ResultadosMC(n) ==
    IF n <= MaxResultados THEN [1..n -> ValoresMC]
    ELSE {Padrao(n, m, c) : m \in {1, 3, 5}, c \in 3..5}

\* element k (from 0) of np.sort(a)
Ordenado(a, k) ==
    CHOOSE v \in {a[i] : i \in DOMAIN a} :
        /\ Cardinality({i \in DOMAIN a : a[i] < v}) <= k
        /\ k < Cardinality({i \in DOMAIN a : a[i] <= v})

\* np.percentile(a, q) for q given in tenths of a percent: the virtual index
\* (n - 1) * q / 100 is split in its floor j and its fraction, and the value
\* is interpolated linearly between the neighbours j and j + 1 of the
\* sorted array
Percentil(a, q10) ==
    LET n == Len(a)
        j == ((n - 1) * q10) \div 1000
        resto == ((n - 1) * q10) % 1000
    IN  IF resto = 0 THEN Ordenado(a, j)
        ELSE Ordenado(a, j)
             + MulDiv(Ordenado(a, j + 1) - Ordenado(a, j), resto, 1000)

\* the mask a < v
AbaixoEstrito(a, v) == {i \in DOMAIN a : a[i] < v}

\* the mask resultados_array <= var_95
Abaixo(a, v) == {i \in DOMAIN a : a[i] <= v}

\* a[I].mean() of the masked array: NaN (with a warning) when I is empty
MediaDe(a, I) ==
    IF I = {} THEN NaN
    ELSE Finito(DivInt(Soma(NdArray([k \in 0..(Cardinality(I) - 1) |->
                                        a[Ordenar(I)[k + 1]]])),
                       Cardinality(I)))

\* np.std(a): the root of the mean squared deviation
Std(a) ==
    Raiz(Media([i \in DOMAIN a |-> Mul(a[i] - Media(a), a[i] - Media(a))]))

\* x * y for a float x that may be NaN
VezesNaN(x, y) == IF x.finito THEN Finito(Mul(x.valor, y)) ELSE NaN

analise_financeira_risco(resultados_mc, preco_carbono, taxa_cambio, nome_metodologia) ==
    LET a == resultados_mc
        media == Media(a)
        ic_inferior == Percentil(a, 25)
        ic_superior == Percentil(a, 975)
        var_95 == Percentil(a, 50)
        cvar_95 == MediaDe(a, Abaixo(a, var_95))
        valor_medio_eur == Mul(media, preco_carbono)
        valor_var_eur == Mul(var_95, preco_carbono)
        valor_cvar_eur == VezesNaN(cvar_95, preco_carbono)
    IN  [nome |-> nome_metodologia,
         estatisticas |->
            [media |-> media, mediana |-> Percentil(a, 500), std |-> Std(a),
             p5 |-> Percentil(a, 50), p25 |-> Percentil(a, 250),
             p75 |-> Percentil(a, 750), p95 |-> Percentil(a, 950),
             ic_95_inf |-> ic_inferior, ic_95_sup |-> ic_superior,
             var_95 |-> var_95, cvar_95 |-> cvar_95,
             downside |-> media - ic_inferior,
             upside |-> ic_superior - media],
         financeiro_eur |->
            [valor_medio |-> valor_medio_eur, valor_var |-> valor_var_eur,
             valor_cvar |-> valor_cvar_eur],
         financeiro_brl |->
            [valor_medio |-> Mul(valor_medio_eur, taxa_cambio),
             valor_var |-> Mul(valor_var_eur, taxa_cambio),
             valor_cvar |-> VezesNaN(valor_cvar_eur, taxa_cambio)]]

\* the reference price of carbon, 85.57 EUR per tCO2eq
PrecoReferencia == 85 * UM + Dec(57, 100)

\* the reference exchange rate, 6.36 BRL per EUR
TaxaReferencia == Dec(636, 100)

InitRisco ==
    /\ Sidebar
    /\ perfis = [x \in {} |-> 0]
    /\ pc = "modulo"
    /\ SemLaco
    /\ dias = MaxDiasMC
    /\ chamada_aterro = <<>>
    /\ retorno = <<>>
    /\ SemRelatorio
    /\ rng = 0
    /\ ultimo = <<>>
    /\ lembrado = <<>>
    /\ n_simulations \in ComprimentosMC
    /\ robustez = <<>>
    /\ avaliacoes = <<>>
    /\ SemSessao

\* lines 2282-2294: the risk analysis of the results of a Monte Carlo run
\* of n_simulations simulations, at the reference prices
AnalisarRisco ==
    /\ pc = "pronto"
    /\ \E r \in ResultadosMC(n_simulations) :
       \E nome \in {"Proposta da Tese", "Cenario UNFCCC"} :
          /\ params' = <<r, PrecoReferencia, TaxaReferencia, nome>>
          /\ retorno' = analise_financeira_risco(r, PrecoReferencia,
                                                 TaxaReferencia, nome)
    /\ fn' = "analise_financeira_risco"
    /\ erro' = ""
    /\ pc' = "retornou"
    /\ UNCHANGED dias_simulacao
    /\ ForaDaChamada

NextRisco == ExecutarModulo \/ AnalisarRisco

SpecRisco == InitRisco /\ [][NextRisco]_vars

\* C21: for every non-empty array of Monte Carlo results, the analysis
\* reports var_95 equal to p5, the 5th percentile, which lies between the
\* least sample and the greatest; cvar_95 is the mean of exactly the samples
\* that are <= var_95, a set that is never empty, so cvar_95 is a number and
\* cvar_95 <= var_95.
C21_VaRECVaR ==
    (pc = "retornou" /\ fn = "analise_financeira_risco") =>
        \A a \in {params[1]} : \A e \in {retorno.estatisticas} :
        \A I \in {{i \in 1..Len(a) : a[i] <= e.var_95}} :
            /\ e.var_95 = e.p5
            /\ \E i \in 1..Len(a) : a[i] <= e.var_95
            /\ \E i \in 1..Len(a) : a[i] >= e.var_95
            /\ 20 * Cardinality({i \in 1..Len(a) : a[i] < e.var_95})
                  <= Len(a) + 19
            /\ 20 * Cardinality(I) > Len(a) - 1
            /\ I # {}
            /\ e.cvar_95.finito
            /\ Abs(Soma(NdArray([k \in 0..(Len(a) - 1) |->
                                   IF k + 1 \in I THEN a[k + 1] ELSE 0]))
                   - e.cvar_95.valor * Cardinality(I)) < Cardinality(I)
            /\ e.cvar_95.valor <= e.var_95

\* a long array was analysed whose 5th percentile falls between two
\* different samples, with several samples below it
C21_Witness ==
    /\ pc = "retornou"
    /\ fn = "analise_financeira_risco"
    /\ Len(params[1]) = ComprimentoLongo
    /\ Cardinality({i \in 1..Len(params[1]) :
                       params[1][i] <= retorno.estatisticas.var_95}) >= 3
    /\ \A i \in 1..Len(params[1]) :
          params[1][i] # retorno.estatisticas.var_95
    /\ retorno.estatisticas.cvar_95.finito
    /\ retorno.estatisticas.cvar_95.valor < retorno.estatisticas.var_95


-----------------------------------------------------------------------------
(* The evaluators over the horizon of the sidebar (years of 365 days).     *)
(* The arrays of the calculators are the series of the long-horizon form   *)
(* (LemaSeriesDosLacos, LemaSerieAterro).                                  *)

MaxHorizonte == 20

\* st.slider("Anos de simulação", 5, 50, 20, 5)
AnosDoHorizonte == {a \in 5..MaxHorizonte : a % 5 = 0}

\* executar_simulacao_completa(parametros) with the module's dias
SimulacaoCompleta(parametros) ==
    ReducaoTotal(SerieAterro(parametros, dias), SerieVermi(parametros, dias))

\* executar_simulacao_unfccc(parametros) with the module's dias
SimulacaoUnfccc(parametros) ==
    ReducaoTotal(SerieAterro(parametros, dias), SerieCompostagem(parametros, dias))

\* sidebar values of a script run: the moisture slider gives params_base
InitCenario ==
    /\ residuos_kg_dia \in {Dec(10, 1), Dec(50, 1), Dec(100, 1)}
    /\ umidade \in {Dec(50, 100), Dec(85, 100), Dec(95, 100)}
    /\ massa_exposta_kg = Dec(100, 1)
    /\ h_exposta = Dec(8, 1)
    /\ perfis = [x \in {} |-> 0]
    /\ pc = "modulo"
    /\ SemLaco
    /\ anos_simulacao \in AnosDoHorizonte
    /\ ano_inicio = MaxAnoInicio
    /\ dias = anos_simulacao * 365
    /\ chamada_aterro = <<>>
    /\ retorno = <<>>
    /\ relatorio = <<>>
    /\ SemMC
    /\ SemSessao

\* what a call of an evaluator at params_base leaves alone
ForaDoCenario ==
    UNCHANGED <<session_state,
                residuos_kg_dia, umidade, massa_exposta_kg, h_exposta, perfis,
                dia_entrada, dia_compostagem, emissoes_CH4, emissoes_N2O, lote,
                dias, chamada_aterro, vars_relatorio, vars_mc>>

\* executar_simulacao_completa([umidade, T, DOC]) is called and returns
AvaliarCenarioTese ==
    /\ pc = "pronto"
    /\ \E prm \in {<<umidade, T, DOC>>} :
          /\ params' = prm
          /\ retorno' = [valor |-> SimulacaoCompleta(prm)]
    /\ fn' = "completa"
    /\ dias_simulacao' = dias
    /\ erro' = ""
    /\ pc' = "retornou"
    /\ ForaDoCenario

\* executar_simulacao_unfccc([umidade, T, DOC]) is called and returns
AvaliarCenarioUnfccc ==
    /\ pc = "pronto"
    /\ \E prm \in {<<umidade, T, DOC>>} :
          /\ params' = prm
          /\ retorno' = [valor |-> SimulacaoUnfccc(prm)]
    /\ fn' = "unfccc"
    /\ dias_simulacao' = dias
    /\ erro' = ""
    /\ pc' = "retornou"
    /\ ForaDoCenario

NextCenario == ExecutarModulo \/ AvaliarCenarioTese \/ AvaliarCenarioUnfccc

SpecCenario == InitCenario /\ [][NextCenario]_vars

\* the sum over all days of the CO2eq of a pair of series, in t
TotalCO2eq(s) == Soma(TotalTCO2eq(s))

\* the scenario of the acceptance test: 100 kg/day, moisture 0.85, 25 C,
\* DOC 0.15, 20 years of 365 days, default exposure
CenarioDeReferencia ==
    /\ residuos_kg_dia = Dec(100, 1)
    /\ massa_exposta_kg = Dec(100, 1)
    /\ h_exposta = Dec(8, 1)
    /\ params = <<Dec(85, 100), Dec(25, 1), Dec(15, 100)>>
    /\ dias_simulacao = 7300

\* C22: in the reference scenario the total of avoided emissions that
\* executar_simulacao_completa returns is a number and strictly positive:
\* the landfill total of CO2eq exceeds the vermicomposting total.
C22_EvitadoPositivo ==
    (pc = "retornou" /\ fn = "completa" /\ CenarioDeReferencia) =>
        \A aterro \in {TotalCO2eq(SerieAterro(params, dias_simulacao))} :
        \A vermi \in {TotalCO2eq(SerieVermi(params, dias_simulacao))} :
            /\ retorno.valor \in Int
            /\ retorno.valor > 0
            /\ aterro > vermi
            /\ vermi > 0
            /\ retorno.valor = aterro - vermi

\* the evaluator returned in the reference scenario
C22_Witness ==
    /\ pc = "retornou"
    /\ fn = "completa"
    /\ CenarioDeReferencia
    /\ retorno.valor > 1000 * UM


-----------------------------------------------------------------------------
(* The batch loops as a convolution (Spec)                                 *)

\* the offsets k = d - e of the entry days e with 0 <= e <= d that lie
\* inside the profile
OffsetsAte(p, d) == {k \in DOMAIN p : k <= d}

\* batch_total times the sum of profile[d - e] over those entry days: the
\* truncated convolution of a constant input with the profile, on day d
ConvolucaoNoDia(total, p, d) ==
    MulDiv(total, SomaNumeradores(p, OffsetsAte(p, d)), p[0][2])

\* series is that convolution on every day, up to the truncation of each
\* of its products to a whole unit
EhConvolucao(serie, total, p, D) ==
    \A d \in 0..(D - 1) :
        /\ ConvolucaoNoDia(total, p, d) - serie[d]
              \in 0..(Cardinality(OffsetsAte(p, d)) - 1)
        /\ d >= 49 => total - serie[d] \in 0..49

\* C23: when calcular_emissoes_vermi or calcular_emissoes_compostagem has
\* returned, the value of day d of each series is the batch total times the
\* sum of profile[d - e] over the entry days e with 0 <= e <= d and
\* d - e < 50 (the truncated convolution of a constant input with the
\* profile), and from day 49 on it is the whole batch total; each of the up
\* to 50 products is truncated to a whole unit.
C23_LacoEhConvolucao ==
    (pc = "retornou" /\ fn \in {"vermi", "compostagem"}) =>
        /\ fn = "vermi" =>
              /\ EhConvolucao(emissoes_CH4, ch4_total_por_lote_vermi(params),
                              perfis.PERFIL_CH4_VERMI, dias_simulacao)
              /\ EhConvolucao(emissoes_N2O, n2o_total_por_lote_vermi(params),
                              perfis.PERFIL_N2O_VERMI, dias_simulacao)
        /\ fn = "compostagem" =>
              /\ EhConvolucao(emissoes_CH4,
                              ch4_total_por_lote_compostagem(params),
                              perfis.PERFIL_CH4_THERMO, dias_simulacao)
              /\ EhConvolucao(emissoes_N2O,
                              n2o_total_por_lote_compostagem(params),
                              perfis.PERFIL_N2O_THERMO, dias_simulacao)

\* a thermophilic call over a horizon longer than the profile has returned:
\* the last days hold the whole batch total, the early days less
C23_Witness ==
    /\ pc = "retornou"
    /\ fn = "compostagem"
    /\ dias_simulacao = MaxDias
    /\ dias_simulacao > 50
    /\ emissoes_CH4[0] > 0
    /\ emissoes_CH4[10] > emissoes_CH4[0]
    /\ emissoes_CH4[49] > emissoes_CH4[10]
    /\ emissoes_CH4[50] = emissoes_CH4[49]
    /\ ch4_total_por_lote_compostagem(params) - emissoes_CH4[50] \in 0..49


-----------------------------------------------------------------------------
(* The landfill CH4 series as a convolution (SpecFn)                       *)

\* kernel(1) + ... + kernel(n), each entry computed from its formula
SomaDoKernel(n) == SomaEntre([t \in 1..n |-> KernelCH4(t)], 1, n)

\* C24: when calcular_emissoes_aterro has returned, the decay part of its
\* CH4 series has D entries; on day d it is potencial_CH4_lote_diario times
\* kernel(1) + ... + kernel(d + 1), the convolution of the all-ones input
\* with the kernel cut to D entries, which is potencial_CH4_lote_diario *
\* (1 - exp(-k (d + 1) / 365)); it never decreases with d and stays below
\* the potential of one batch.
C24_DecaimentoEhConvolucao ==
    pc = "aterro" =>
        \A D \in {chamada_aterro.dias_simulacao} :
        \A pot \in {chamada_aterro.potencial_CH4_lote_diario} :
        \A dec \in {chamada_aterro.decaimento} :
            /\ DOMAIN dec = 0..(D - 1)
            /\ pot > 0
            /\ \A d \in 0..(D - 1) :
                  /\ dec[d] = Mul(SomaDoKernel(d + 1), pot)
                  /\ dec[d] = Mul(Dec(1, 1)
                                    - Exp(DivInt(MulInt(-k_ano, d + 1), 365)),
                                  pot)
                  /\ dec[d] < pot
                  /\ d > 0 => dec[d] >= dec[d - 1]

\* a landfill call over the longest horizon: the decay series has grown
\* from its first day to its last and is still far below the potential
C24_Witness ==
    /\ pc = "aterro"
    /\ chamada_aterro.dias_simulacao = MaxDiasAterro
    /\ chamada_aterro.params = <<Dec(85, 100), Dec(25, 1), Dec(15, 100)>>
    /\ chamada_aterro.decaimento[MaxDiasAterro - 1]
          > chamada_aterro.decaimento[1]
    /\ chamada_aterro.decaimento[1] > chamada_aterro.decaimento[0]
    /\ 100 * chamada_aterro.decaimento[MaxDiasAterro - 1]
          < chamada_aterro.potencial_CH4_lote_diario


-----------------------------------------------------------------------------
(* What the project calculators read of their parameters (SpecCalc)        *)

\* two products that are equal as real numbers may differ by the
\* truncation of the per-kg factor (less than one unit per kg of waste) and
\* of each pass of the loop
Tolerancia == 2 * (residuos_kg_dia \div UM) + 100

\* series a at dry-matter fraction fa and series b at fraction fb are in
\* the proportion fa : fb
Proporcionais(a, fa, b, fb) ==
    \A d \in DOMAIN a : Abs(Mul(a[d], fb) - Mul(b[d], fa)) <= Tolerancia

\* C25: the series calcular_emissoes_vermi and calcular_emissoes_compostagem
\* return depend on the parameter triple through the moisture alone: a
\* triple with the same moisture and any other temperature and DOC gives the
\* same CH4 and N2O series, and a triple with another moisture gives series
\* in the proportion of the two values of 1 - moisture.
C25_SoAUmidadeImporta ==
    (pc = "retornou" /\ fn \in {"vermi", "compostagem"}) =>
        \A prm \in ArgumentosCalc(fn) :
        \A r \in {Calcular(fn, prm, dias_simulacao)} :
            /\ prm[1] = params[1] =>
                  /\ r.CH4 = retorno.CH4
                  /\ r.N2O = retorno.N2O
            /\ Proporcionais(retorno.CH4, Dec(1, 1) - params[1],
                             r.CH4, Dec(1, 1) - prm[1])
            /\ Proporcionais(retorno.N2O, Dec(1, 1) - params[1],
                             r.N2O, Dec(1, 1) - prm[1])

\* the thermophilic calculator has returned non-zero series for a triple
\* that shares its moisture with triples of other temperatures and DOC
C25_Witness ==
    /\ pc = "retornou"
    /\ fn = "compostagem"
    /\ dias_simulacao = MaxDiasCalc
    /\ params = <<Dec(55, 100), Dec(45, 1), Dec(1, 100)>>
    /\ <<Dec(55, 100), Dec(0, 1), Dec(99, 100)>> \in ArgumentosCalc(fn)
    /\ retorno.CH4[MaxDiasCalc - 1] > 1000
    /\ retorno.N2O[MaxDiasCalc - 1] > 1000


-----------------------------------------------------------------------------
(* The report's totals and the scalar evaluators (SpecAnual)               *)

\* lemma (SpecFn): over the short horizons where the loops and the
\* convolutions are run, the evaluators return what the long-horizon forms
\* give
LemaSimulacaoLonga ==
    (retorno # <<>> /\ "completa" \in DOMAIN retorno) =>
        /\ retorno.completa = SimulacaoCompleta(retorno.parametros)
        /\ "unfccc" \in retorno.retornaram =>
              retorno.unfccc = SimulacaoUnfccc(retorno.parametros)

\* C26: for params_base = [umidade, T, DOC] the totals of the deterministic
\* report are the results of the scalar evaluators: the last value of the
\* daily cumulative difference is executar_simulacao_completa(params_base)
\* and the last cumulative annual reduction of the per-year merge is
\* executar_simulacao_unfccc(params_base).  The report converts each gas
\* to CO2eq before adding the two, the evaluators after: in fixed point each
\* day's total may differ by one unit of truncation.
C26_TotaisDoRelatorio ==
    pc = "relatorio" =>
        \A tese \in {SimulacaoCompleta(<<umidade, T, DOC>>)} :
        \A unfccc \in {SimulacaoUnfccc(<<umidade, T, DOC>>)} :
            /\ Abs(relatorio.total_evitado_tese - tese) <= dias
            /\ Abs(relatorio.total_evitado_unfccc - unfccc) <= dias
            /\ relatorio.total_evitado_tese
                  = relatorio.df_anual_revisado[
                        Len(relatorio.df_anual_revisado)].Cumulative

\* a report over the longest horizon, whose last annual row is cut short by
\* the leap days before it, shows two different positive totals
C26_Witness ==
    /\ pc = "relatorio"
    /\ anos_simulacao = MaxAnos
    /\ Len(relatorio.df_comp_anual_revisado) = MaxAnos
    /\ relatorio.df_comp_anual_revisado[MaxAnos].n_dias < 365
    /\ relatorio.total_evitado_unfccc > 100 * UM
    /\ relatorio.total_evitado_tese > relatorio.total_evitado_unfccc + UM


-----------------------------------------------------------------------------
(* The pairing of the two Monte Carlo arrays (SpecMC)                      *)

\* resultados holds, for every sample i, the thesis evaluator (or the
\* UNFCCC one) at the triple amostras[i]
AvaliadosEm(resultados, amostras, tipo) ==
    /\ Len(resultados) = Len(amostras)
    /\ \A i \in 1..Len(amostras) :
          resultados[i] = Avaliar(tipo, amostras[i])

\* C27: in the main Monte Carlo analysis the UNFCCC episode evaluates
\* sample i at the triple the thesis episode of the same script run
\* evaluated its sample i at, and in every seed iteration of the robustness
\* analysis both lists are evaluated at the iteration's triples; so the two
\* result arrays have the same length, n_simulations, and are paired index
\* by index.
C27_AmostrasPareadas ==
    /\ [](ultimo # <<>> /\ ultimo.tipo = "robustez" =>
            /\ Len(ultimo.amostras) = ultimo.n
            /\ AvaliadosEm(ultimo.resultados[1], ultimo.amostras, "mc_tese")
            /\ AvaliadosEm(ultimo.resultados[2], ultimo.amostras, "mc_unfccc"))
    /\ [][pc' = "mc_unfccc" /\ pc = "mc_tese" =>
            /\ ultimo.tipo = "mc_tese"
            /\ ultimo'.tipo = "mc_unfccc"
            /\ ultimo'.amostras = ultimo.amostras
            /\ Len(ultimo.amostras) = n_simulations
            /\ AvaliadosEm(ultimo.resultados, ultimo.amostras, "mc_tese")
            /\ AvaliadosEm(ultimo'.resultados, ultimo.amostras, "mc_unfccc")
      ]_vars

\* the UNFCCC episode of a run with the most simulations has run after the
\* thesis episode, which is remembered: same triples, different results
C27_Witness ==
    /\ pc = "mc_unfccc"
    /\ n_simulations = MaxSim
    /\ ultimo # <<>> /\ ultimo.tipo = "mc_unfccc"
    /\ lembrado # <<>> /\ lembrado.tipo = "mc_tese"
    /\ lembrado.n = MaxSim
    /\ lembrado.amostras = ultimo.amostras
    /\ ultimo.amostras[1] # ultimo.amostras[MaxSim]
    /\ \A i \in 1..MaxSim : lembrado.resultados[i] # ultimo.resultados[i]


-----------------------------------------------------------------------------
(* The two evaluators at one parameter triple (SpecPares)                  *)

\* moistures below 1 (the dry-matter fraction 1 - moisture is positive)
UmidadesDoPar ==
    {-Dec(20, 100), Dec(50, 100), Dec(85, 100), Dec(99, 100), Dec(1, 1) - 1}

\* triples a sampler can hand to the two evaluators
ParamsDoPar ==
    UmidadesDoPar \X {Dec(16, 1), Dec(34, 1)} \X {Dec(12, 100), Dec(18, 100)}

\* sidebar settings <<waste in kg per day, years>> of the runs
SidebarDoPar ==
    ({10, 50, 100, 500} \X {5}) \cup {<<100, MaxHorizonte>>}

InitPares ==
    /\ \E par \in SidebarDoPar :
          /\ residuos_kg_dia = Dec(par[1], 1)
          /\ anos_simulacao = par[2]
    /\ umidade = Dec(85, 100)
    /\ massa_exposta_kg = Dec(100, 1)
    /\ h_exposta = Dec(8, 1)
    /\ perfis = [x \in {} |-> 0]
    /\ pc = "modulo"
    /\ SemLaco
    /\ ano_inicio = MaxAnoInicio
    /\ dias = anos_simulacao * 365
    /\ chamada_aterro = <<>>
    /\ retorno = <<>>
    /\ relatorio = <<>>
    /\ SemMC
    /\ SemSessao

\* lines 1589-1591: both evaluators are called at one triple and return
AvaliarPar ==
    /\ pc = "pronto"
    /\ \E prm \in ParamsDoPar :
          /\ params' = prm
          /\ retorno' = [completa |-> SimulacaoCompleta(prm),
                         unfccc |-> SimulacaoUnfccc(prm)]
    /\ fn' = "par"
    /\ dias_simulacao' = dias
    /\ erro' = ""
    /\ pc' = "retornou"
    /\ ForaDoCenario

NextPares == ExecutarModulo \/ AvaliarPar

SpecPares == InitPares /\ [][NextPares]_vars

\* C28: for every triple with moisture < 1 and every horizon of at least
\* five years, executar_simulacao_completa(params) >=
\* executar_simulacao_unfccc(params): the thesis comparison never reports
\* fewer avoided emissions than the UNFCCC comparison, and it reports more
\* unless the batch totals are too small to show.
C28_TeseNaoAbaixoDoUnfccc ==
    (pc = "retornou" /\ fn = "par" /\ params[1] < Dec(1, 1)
        /\ dias_simulacao >= 5 * 365) =>
        /\ retorno.completa >= retorno.unfccc
        /\ params[1] <= Dec(99, 100) => retorno.completa > retorno.unfccc

\* both evaluators returned for a moist sample over five years: the thesis
\* comparison avoids more than the UNFCCC comparison
C28_Witness ==
    /\ pc = "retornou"
    /\ fn = "par"
    /\ dias_simulacao = 5 * 365
    /\ params = <<Dec(85, 100), Dec(34, 1), Dec(12, 100)>>
    /\ residuos_kg_dia = Dec(100, 1)
    /\ retorno.unfccc > 0
    /\ retorno.completa > retorno.unfccc + UM


-----------------------------------------------------------------------------
(* Quotes of carbon and of the euro (lines 33-148).  What the external     *)
(* sources answer is an input.  A text is a sequence of characters; the    *)
(* texts tried are made of digits, '.', ',' and letters.  A Python value   *)
(* is a record of its type, its number (for a float) and its text (for a   *)
(* str).                                                                   *)

PyFloat(v) == [tipo |-> "float", valor |-> v, texto |-> <<>>]

PyStr(txt) == [tipo |-> "str", valor |-> 0, texto |-> txt]

PyNone == [tipo |-> "NoneType", valor |-> 0, texto |-> <<>>]

\* a key that the JSON document does not have
Ausente == [tipo |-> "ausente", valor |-> 0, texto |-> <<>>]

Digitos == {"0", "1", "2", "3", "4", "5", "6", "7", "8", "9"}

\* int(c) of a digit
ValorDoDigito(c) ==
    CASE c = "0" -> 0 [] c = "1" -> 1 [] c = "2" -> 2 [] c = "3" -> 3
      [] c = "4" -> 4 [] c = "5" -> 5 [] c = "6" -> 6 [] c = "7" -> 7
      [] c = "8" -> 8 [] c = "9" -> 9

EhDigitoOuPonto(c) == c \in Digitos \cup {"."}

NaoEhVirgula(c) == c # ","

\* the number the digits txt[1..n] spell
RECURSIVE Inteiro(_, _)
Inteiro(txt, n) ==
    IF n = 0 THEN 0 ELSE 10 * Inteiro(txt, n - 1) + ValorDoDigito(txt[n])

\* the fraction 0.d1d2... the digits txt[de..Len(txt)] spell, in millionths
\* of the unit peso
RECURSIVE Decimais(_, _, _)
Decimais(txt, de, peso) ==
    IF de > Len(txt) THEN 0
    ELSE ValorDoDigito(txt[de]) * (peso \div 10)
         + Decimais(txt, de + 1, peso \div 10)

\* float(txt) of a text of digits, dots, commas and letters: a ValueError
\* unless txt is digits with at most one dot and at least one digit
ParseFloat(txt) ==
    LET pontos == {i \in 1..Len(txt) : txt[i] = "."}
        digitos == {i \in 1..Len(txt) : txt[i] \in Digitos}
    IN  IF digitos = {} \/ Cardinality(pontos) > 1
           \/ Cardinality(pontos) + Cardinality(digitos) # Len(txt)
        THEN [erro |-> "ValueError", valor |-> 0]
        ELSE IF pontos = {}
        THEN [erro |-> "", valor |-> Inteiro(txt, Len(txt)) * UM]
        ELSE LET p == CHOOSE i \in pontos : TRUE
             IN  [erro |-> "",
                  valor |-> Inteiro(txt, p - 1) * UM + Decimais(txt, p + 1, UM)]

\* lines 67-73: the text of an element with its commas removed and only its
\* digits and dots kept
Limpar(texto) == SelectSeq(SelectSeq(texto, NaoEhVirgula), EhDigitoOuPonto)

\* lines 63-75: the price of the first element found whose cleaned text is
\* not empty and is a float
PrecoDosElementos(elementos) ==
    LET bons == {i \in 1..Len(elementos) :
                    /\ Limpar(elementos[i]) # <<>>
                    /\ ParseFloat(Limpar(elementos[i])).erro = ""}
    IN  IF bons = {} THEN PyNone
        ELSE PyFloat(ParseFloat(Limpar(elementos[
                        CHOOSE i \in bons : \A j \in bons : i <= j])).valor)

\* lines 89-98: the first match of the patterns that, with its commas
\* removed, is a float strictly between 50 and 200
PrecoDosPadroes(matches) ==
    LET bons == {i \in 1..Len(matches) :
                    \A f \in {ParseFloat(SelectSeq(matches[i], NaoEhVirgula))} :
                        /\ f.erro = ""
                        /\ 50 * UM < f.valor
                        /\ f.valor < 200 * UM}
    IN  IF bons = {} THEN PyNone
        ELSE PyFloat(ParseFloat(SelectSeq(matches[
                        CHOOSE i \in bons : \A j \in bons : i <= j],
                        NaoEhVirgula)).valor)

\* what requests.get(url) of investing.com may give: an exception (network
\* error, timeout, bad status) or a page, of which the texts of the
\* elements the selectors find and the matches of the patterns count
RespostasInvesting ==
    {[tipo |-> "erro", elementos |-> <<>>, matches |-> <<>>],
     [tipo |-> "pagina",
      elementos |-> << <<"N", "/", "A">>, <<"1", ".", "2", ".", "3">>,
                       <<"1", ",", "0", "9", "1", ".", "5">> >>,
      matches |-> <<>>]}
    \cup [tipo : {"pagina"},
          elementos : {<< <<"N", "/", "A">>, <<"1", ".", "2", ".", "3">> >>},
          matches : {<<>>, << <<",">>, <<"3", "5">>, <<"9", "2">> >>}]

\* obter_cotacao_carbono_investing(), lines 33-104
obter_cotacao_carbono_investing(resposta) ==
    IF resposta.tipo = "erro"
    THEN [preco |-> PyNone, moeda |-> "None", contrato_info |-> "None",
          sucesso |-> FALSE, fonte |-> "Investing.com - Erro"]
    ELSE IF PrecoDosElementos(resposta.elementos).tipo = "float"
    THEN [preco |-> PrecoDosElementos(resposta.elementos), moeda |-> "EUR",
          contrato_info |-> "Carbon Emissions Future", sucesso |-> TRUE,
          fonte |-> "Investing.com"]
    ELSE IF PrecoDosPadroes(resposta.matches).tipo = "float"
    THEN [preco |-> PrecoDosPadroes(resposta.matches), moeda |-> "EUR",
          contrato_info |-> "Carbon Emissions Future", sucesso |-> TRUE,
          fonte |-> "Investing.com"]
    ELSE [preco |-> PyNone, moeda |-> "None", contrato_info |-> "None",
          sucesso |-> FALSE, fonte |-> "Investing.com"]

\* obter_cotacao_carbono(), lines 106-119
obter_cotacao_carbono(resposta) ==
    IF obter_cotacao_carbono_investing(resposta).sucesso
    THEN obter_cotacao_carbono_investing(resposta)
    ELSE [preco |-> PyFloat(PrecoReferencia), moeda |-> "EUR",
          contrato_info |-> "Carbon Emissions (EU ETS Reference)",
          sucesso |-> FALSE, fonte |-> "EU ETS Reference Price"]

\* what an exchange-rate API may answer: an exception (network error, a
\* body that is not JSON or lacks the key), a status other than 200, or
\* status 200 with a JSON document that holds a rate
RespostasApi(valores) ==
    {[tipo |-> "erro", cotacao |-> Ausente],
     [tipo |-> "status", cotacao |-> Ausente]}
    \cup [tipo : {"json"}, cotacao : valores]

\* data['EURBRL']['bid'] of the first API: a text
RespostasAwesome ==
    RespostasApi({PyStr(<<"6", ".", "1", "2">>), PyStr(<<"a", "b", "c">>)})

\* data['rates']['BRL'] of the second API: a JSON number or null
RespostasExchangeRate == RespostasApi({PyFloat(Dec(62, 10)), PyNone})

\* the answers to choose from in a step: when the step fetches nothing,
\* what the sources would answer does not count and one answer stands for
\* all
Respostas(consulta, S) == IF consulta THEN S ELSE {CHOOSE r \in S : TRUE}

\* lines 126-133: the first API answered with status 200 and its bid is a
\* float (anything else raises inside the try and is passed over)
AwesomeServe(r) ==
    /\ r.tipo = "json"
    /\ r.cotacao.tipo = "str"
    /\ ParseFloat(r.cotacao.texto).erro = ""

\* lines 137-144: the second API answered with status 200 and has the key
ExchangeRateServe(r) ==
    /\ r.tipo = "json"
    /\ r.cotacao.tipo # "ausente"

\* obter_cotacao_euro_real(), lines 121-148
obter_cotacao_euro_real(r1, r2) ==
    IF AwesomeServe(r1)
    THEN [cotacao |-> PyFloat(ParseFloat(r1.cotacao.texto).valor),
          moeda |-> "R$", sucesso |-> TRUE, fonte |-> "AwesomeAPI"]
    ELSE IF ExchangeRateServe(r2)
    THEN [cotacao |-> r2.cotacao, moeda |-> "R$", sucesso |-> TRUE,
          fonte |-> "ExchangeRate-API"]
    ELSE [cotacao |-> PyFloat(TaxaReferencia), moeda |-> "R$",
          sucesso |-> FALSE, fonte |-> "Reference Rate for EU ETS"]


-----------------------------------------------------------------------------
(* The session (lines 157-219, 267-293, 350).  st.session_state is a       *)
(* dictionary: a function from its keys to their values.  Each script run  *)
(* calls inicializar_session_state (line 293), then                        *)
(* exibir_cotacao_carbono (line 350), then the rest of the module.         *)

\* st.session_state.get(k, padrao)
Get(ss, k, padrao) == IF k \in DOMAIN ss THEN ss[k] ELSE padrao

\* st.session_state.k = v
Por(ss, k, v) == [x \in DOMAIN ss \cup {k} |-> IF x = k THEN v ELSE ss[x]]

\* if k not in st.session_state: st.session_state.k = v
PorSeFalta(ss, k, v) == IF k \in DOMAIN ss THEN ss ELSE Por(ss, k, v)

\* inicializar_session_state(), lines 267-290
inicializar_session_state(ss, rc, r1, r2) ==
    LET c == obter_cotacao_carbono(rc)
        e == obter_cotacao_euro_real(r1, r2)
        s1 == IF "preco_carbono" \notin DOMAIN ss
              THEN Por(Por(Por(ss, "preco_carbono", c.preco),
                           "moeda_carbono", c.moeda),
                       "fonte_cotacao", c.fonte)
              ELSE ss
        s2 == IF "taxa_cambio" \notin DOMAIN s1
              THEN Por(Por(s1, "taxa_cambio", e.cotacao),
                       "moeda_real", e.moeda)
              ELSE s1
    IN  PorSeFalta(PorSeFalta(PorSeFalta(PorSeFalta(PorSeFalta(s2,
            "moeda_real", "R$"),
            "cotacao_atualizada", FALSE),
            "run_simulation", FALSE),
            "mostrar_atualizacao", FALSE),
            "cotacao_carregada", FALSE)

\* mutant: the quotes stored and the flags left as they are
AtualizarSemResetar(ss, rc, r1, r2) ==
    LET c == obter_cotacao_carbono(rc)
        e == obter_cotacao_euro_real(r1, r2)
    IN  Por(Por(Por(Por(Por(ss,
            "preco_carbono", c.preco),
            "moeda_carbono", c.moeda),
            "taxa_cambio", e.cotacao),
            "moeda_real", e.moeda),
            "fonte_cotacao", c.fonte)

\* lines 180-194: the quotes are fetched and stored, the flags are reset
Atualizar(ss, rc, r1, r2) ==
    LET c == obter_cotacao_carbono(rc)
        e == obter_cotacao_euro_real(r1, r2)
    IN  Por(Por(Por(Por(Por(Por(Por(ss,
            "preco_carbono", c.preco),
            "moeda_carbono", c.moeda),
            "taxa_cambio", e.cotacao),
            "moeda_real", e.moeda),
            "fonte_cotacao", c.fonte),
            "mostrar_atualizacao", FALSE),
            "cotacao_atualizada", FALSE)

\* lines 164-173: the flags after the first-run test and the button
Sinalizar(ss, botao) ==
    LET s1 == IF ~Get(ss, "cotacao_carregada", FALSE)
              THEN Por(Por(ss, "mostrar_atualizacao", TRUE),
                       "cotacao_carregada", TRUE)
              ELSE ss
    IN  IF botao
        THEN Por(Por(s1, "cotacao_atualizada", TRUE),
                 "mostrar_atualizacao", TRUE)
        ELSE s1

\* f"{v:.2f}" of lines 201 and 208: a TypeError unless v is a number
Formatar(v) == IF v.tipo = "float" THEN "" ELSE "TypeError"

\* exibir_cotacao_carbono(), lines 157-219: the session state it leaves,
\* whether it asked for a rerun (line 196) and the exception it raised
exibir_cotacao_carbono(ss, botao, rc, r1, r2) ==
    IF Get(Sinalizar(ss, botao), "mostrar_atualizacao", FALSE)
    THEN [session_state |-> Atualizar(Sinalizar(ss, botao), rc, r1, r2),
          rerun |-> TRUE, erro |-> ""]
    ELSE [session_state |-> Sinalizar(ss, botao), rerun |-> FALSE,
          erro |-> IF Formatar(ss["preco_carbono"]) # ""
                   THEN Formatar(ss["preco_carbono"])
                   ELSE Formatar(ss["taxa_cambio"])]

\* a browser opens the application: a new session, the script about to run
InitSessao ==
    /\ residuos_kg_dia = Dec(100, 1)
    /\ umidade = DivInt(Dec(85, 1), 100)
    /\ massa_exposta_kg = Dec(100, 1)
    /\ h_exposta = Dec(8, 1)
    /\ perfis = [x \in {} |-> 0]
    /\ pc = "inicio"
    /\ SemLaco
    /\ dias = MaxDiasMC
    /\ chamada_aterro = <<>>
    /\ retorno = <<>>
    /\ SemRelatorio
    /\ SemMC
    /\ SemSessao

\* what a step of the session leaves alone
ForaDaSessao ==
    UNCHANGED <<residuos_kg_dia, umidade, massa_exposta_kg, h_exposta, perfis,
                dias_simulacao, dia_entrada, dia_compostagem, emissoes_CH4,
                emissoes_N2O, lote, dias, chamada_aterro, vars_relatorio,
                vars_mc>>

\* the two quote functions were called with the sources answering rc, r1
\* and r2: the answers and what the functions returned
Consultar(rc, r1, r2) ==
    /\ params' = <<rc, r1, r2>>
    /\ fn' = "obter_cotacao"
    /\ retorno' = <<obter_cotacao_carbono(rc), obter_cotacao_euro_real(r1, r2)>>

\* line 293: the script run begins
InicializarSessionState ==
    /\ pc = "inicio"
    /\ \E rc \in Respostas("preco_carbono" \notin DOMAIN session_state,
                           RespostasInvesting) :
       \E r1 \in Respostas("preco_carbono" \notin DOMAIN session_state,
                           RespostasAwesome) :
       \E r2 \in Respostas("preco_carbono" \notin DOMAIN session_state,
                           RespostasExchangeRate) :
          /\ IF "preco_carbono" \notin DOMAIN session_state
             THEN Consultar(rc, r1, r2)
             ELSE UNCHANGED <<fn, params, retorno>>
          /\ session_state'
                 = inicializar_session_state(session_state, rc, r1, r2)
    /\ erro' = ""
    /\ pc' = "sidebar"
    /\ ForaDaSessao

\* line 176: this run of exibir_cotacao_carbono will refresh the quotes
VaiAtualizar ==
    Get(Sinalizar(session_state,
                  Get(session_state, "atualizar_cotacoes", FALSE)),
        "mostrar_atualizacao", FALSE)

\* line 350: the sidebar shows the quotes.  The button reads True only in
\* the run its click started; after a refresh st.rerun() starts the script
\* again, otherwise the script goes on or stops at the exception.
ExibirCotacao ==
    /\ pc = "sidebar"
    /\ \E rc \in Respostas(VaiAtualizar, RespostasInvesting) :
       \E r1 \in Respostas(VaiAtualizar, RespostasAwesome) :
       \E r2 \in Respostas(VaiAtualizar, RespostasExchangeRate) :
          LET r == exibir_cotacao_carbono(
                       session_state,
                       Get(session_state, "atualizar_cotacoes", FALSE),
                       rc, r1, r2)
          IN  /\ IF VaiAtualizar
                 THEN Consultar(rc, r1, r2)
                 ELSE UNCHANGED <<fn, params, retorno>>
              /\ session_state' = Por(r.session_state,
                                      "atualizar_cotacoes", FALSE)
              /\ erro' = r.erro
              /\ pc' = IF r.rerun THEN "inicio"
                       ELSE IF r.erro # "" THEN "excecao"
                       ELSE "modulo"
    /\ ForaDaSessao

\* the user presses 'Atualizar Cotacoes': the script runs again
ClicarAtualizar ==
    /\ pc \in {"pronto", "excecao"}
    /\ session_state' = Por(session_state, "atualizar_cotacoes", TRUE)
    /\ erro' = ""
    /\ pc' = "inicio"
    /\ UNCHANGED <<fn, params, retorno>>
    /\ ForaDaSessao

\* the user moves a slider of the sidebar: the script runs again
MoverSlider ==
    /\ pc \in {"pronto", "excecao"}
    /\ \E r \in {50, 100} : residuos_kg_dia' = Dec(r, 1)
    /\ erro' = ""
    /\ pc' = "inicio"
    /\ UNCHANGED <<session_state, umidade, massa_exposta_kg, h_exposta, perfis,
                   fn, params, dias_simulacao, dia_entrada, dia_compostagem,
                   emissoes_CH4, emissoes_N2O, lote, dias, chamada_aterro,
                   retorno, vars_relatorio, vars_mc>>

\* one script run: the three steps; the user's events come between runs
PassoDoScript == InicializarSessionState \/ ExibirCotacao \/ ExecutarModulo

NextSessao ==
    \/ InicializarSessionState
    \/ ExibirCotacao
    \/ ExecutarModulo
    \/ ClicarAtualizar
    \/ MoverSlider

SpecSessao == InitSessao /\ [][NextSessao]_vars

\* the script runner executes a started run to its end; the user need not
\* do anything
SpecSessaoJusta == SpecSessao /\ WF_vars(PassoDoScript)


\* exibir_cotacao_carbono refreshed the quotes and asked for a rerun
PediuRerun == pc = "sidebar" /\ pc' = "inicio"

\* C29: whenever exibir_cotacao_carbono refreshes the quotes, which it does
\* only in the first script run of a session or in the run a press of the
\* button started, it leaves mostrar_atualizacao and cotacao_atualizada
\* False and cotacao_carregada True when it asks for the rerun;
\* cotacao_carregada never becomes False again, so the next run refreshes
\* only after another press; and every script run that starts leads to a
\* run that ends (the sidebar shown and the module executed, or an
\* exception): the session never loops refreshing.
C29_CicloTermina ==
    /\ [][PediuRerun =>
            /\ session_state'["mostrar_atualizacao"] = FALSE
            /\ session_state'["cotacao_atualizada"] = FALSE
            /\ session_state'["cotacao_carregada"] = TRUE
            /\ \/ ~session_state["cotacao_carregada"]
               \/ Get(session_state, "atualizar_cotacoes", FALSE)]_vars
    /\ [][Get(session_state, "cotacao_carregada", FALSE)
            => Get(session_state', "cotacao_carregada", FALSE)]_vars
    /\ [][(pc = "sidebar" /\ session_state["cotacao_carregada"]
           /\ ~Get(session_state, "atualizar_cotacoes", FALSE))
            => pc' # "inicio"]_vars
    /\ (pc = "inicio") ~> (pc \in {"pronto", "excecao"})

\* the first run of a session has refreshed the quotes and asked for the
\* rerun, which has not begun: the flags are reset
C29_Witness ==
    /\ pc = "inicio"
    /\ perfis = [x \in {} |-> 0]
    /\ "cotacao_carregada" \in DOMAIN session_state
    /\ session_state["cotacao_carregada"]
    /\ ~session_state["mostrar_atualizacao"]
    /\ ~session_state["cotacao_atualizada"]
    /\ ~session_state["atualizar_cotacoes"]

\* every external source failed: network error, bad status, or a page in
\* which no price is found
InvestingFalhou(rc) ==
    \/ rc.tipo = "erro"
    \/ /\ PrecoDosElementos(rc.elementos).tipo # "float"
       /\ PrecoDosPadroes(rc.matches).tipo # "float"

ApiFalhou(r) == r.tipo \in {"erro", "status"}

\* C30: whenever obter_cotacao_carbono and obter_cotacao_euro_real have been
\* called they have returned a number, whatever the sources answered, and the reference values 85.57 and 6.36
\* with success False when every source fails; so whenever the script is
\* past inicializar_session_state, preco_carbono and taxa_cambio of the
\* session state are numbers and the sidebar's formatting raises nothing.
C30_CotacoesNumericas ==
    /\ fn = "obter_cotacao" =>
          /\ retorno[1].preco.tipo = "float"
          /\ InvestingFalhou(params[1]) =>
                /\ retorno[1].preco = PyFloat(PrecoReferencia)
                /\ ~retorno[1].sucesso
          /\ retorno[2].cotacao.tipo = "float"
          /\ (ApiFalhou(params[2]) /\ ApiFalhou(params[3])) =>
                /\ retorno[2].cotacao = PyFloat(TaxaReferencia)
                /\ ~retorno[2].sucesso
    /\ pc \in {"sidebar", "modulo", "pronto", "excecao"} =>
          /\ session_state["preco_carbono"].tipo = "float"
          /\ session_state["taxa_cambio"].tipo = "float"
          /\ erro # "TypeError"

\* the part of C30 that the code does satisfy: the carbon quote is always a
\* number, both functions return the reference values when every source
\* fails, and the first exchange-rate API only ever yields a number
CotacoesNumericasSemASegundaApi ==
    /\ fn = "obter_cotacao" =>
          /\ retorno[1].preco.tipo = "float"
          /\ InvestingFalhou(params[1]) =>
                /\ retorno[1].preco = PyFloat(PrecoReferencia)
                /\ ~retorno[1].sucesso
          /\ (AwesomeServe(params[2]) \/ ~ExchangeRateServe(params[3])
              \/ params[3].cotacao.tipo = "float") =>
                retorno[2].cotacao.tipo = "float"
          /\ (ApiFalhou(params[2]) /\ ApiFalhou(params[3])) =>
                /\ retorno[2].cotacao = PyFloat(TaxaReferencia)
                /\ ~retorno[2].sucesso
    /\ pc \in {"sidebar", "modulo", "pronto", "excecao"} =>
          /\ session_state["preco_carbono"].tipo = "float"
          /\ session_state["taxa_cambio"].tipo \in {"float", "NoneType"}
          /\ (erro = "TypeError") =>
                session_state["taxa_cambio"].tipo = "NoneType"

\* the sidebar failed to format a rate that is None
TaxaNone ==
    /\ pc = "excecao"
    /\ erro = "TypeError"
    /\ params[2].tipo = "erro"
    /\ params[3] = [tipo |-> "json", cotacao |-> PyNone]
    /\ retorno[2].sucesso
    /\ session_state["taxa_cambio"] = PyNone

=============================================================================
